---- MODULE Spec2Model ----
(***************************************************************************)
(* Model of the loan amortization engine of cxx_loan_simulator: the        *)
(* legacy single-loan calculator, the per-type calculators reached through *)
(* calculateLoan, the multi-loan controller that aggregates them, and the  *)
(* client's payoff strategy service (simulateStrategy, compareStrategies). *)
(*                                                                         *)
(* Numbers.  The code computes in IEEE doubles.  The model computes in     *)
(* fixed point: money is an integer number of units of 1/10000 dollar (so  *)
(* the code's 0.01 stop epsilon is EPS = 100 units), annual rates are      *)
(* integers in hundredths of a percent (18.99 % is 1899), and a periodic   *)
(* rate is the exact fraction num/den.  A product money * rate is floored  *)
(* to a unit, which is the model's rounding where the code rounds to the   *)
(* nearest double.  Sums, differences, min and max are exact.              *)
(***************************************************************************)
EXTENDS Integers, Sequences, FiniteSets, TLC

VARIABLES
    op,            \* the call being served: "calculate" | "calculateMultiple" |
                   \* "simulateStrategy" | "compareStrategies"
    pc,            \* position of the handler / calculator
    request,       \* the parsed request body
    idx,           \* calculateMultiple: index of the loan being calculated
    entry,         \* the entry handed to the running calculator
    payment,       \* the calculator's configured payment (local `payment`)
    balance,       \* the calculator's running balance (local `balance`)
    month,         \* the calculator's month counter (local `month`)
    vehicleValue,  \* calculateAutoLoan's running vehicle value
    result,        \* the calculator's result under construction
    response,      \* calculateMultiple: the MultiLoanResponse under construction
    http,          \* the HTTP response handed to the callback, or NoReply
    snapshots,     \* the LoanSnapshot list the strategy runs are given
    sim,           \* the locals of the running simulateStrategy call
    runs,          \* the StrategyResults returned so far, in call order
    comparison,    \* the StrategyComparison compareStrategies returns
    client         \* the page's what-if recomputation: the locals of the
                   \* running displayData / sliderResults callback

vars == <<op, pc, request, idx, entry, payment, balance, month, vehicleValue,
          result, response, http, snapshots, sim, runs, comparison, client>>

\* the state of the strategy service
stratVars == <<snapshots, sim, runs, comparison>>

\* the state of the calculators and the controller besides op, pc and request
calcVars == <<idx, entry, payment, balance, month, vehicleValue, result,
              response, http>>

---------------------------------------------------------------------------
(* Fixed-point arithmetic *)

\* 0.01 dollar, the "close enough to zero" threshold of every loop, in units
EPS == 100

Dollar == 100 * EPS

Min(a, b) == IF b < a THEN b ELSE a

Max(a, b) == IF a < b THEN b ELSE a

\* <<q, r>> with a * b = q * c + r and 0 <= r < c, for a, b >= 0, c > 0,
\* computed by doubling so that no intermediate exceeds 3 * c
RECURSIVE MulDivQR(_, _, _)
MulDivQR(a, b, c) ==
    IF b = 0 THEN <<0, 0>>
    ELSE LET h == MulDivQR(a, b \div 2, c)
             odd == (b % 2 = 1)
             d == 2 * h[2] + (IF odd THEN a % c ELSE 0)
             q == 2 * h[1] + (IF odd THEN a \div c ELSE 0) + (d \div c)
         IN <<q, d % c>>

Abs(x) == IF x < 0 THEN -x ELSE x

\* floor(a * b / c) for c > 0
MulDiv(a, b, c) ==
    LET qr == MulDivQR(Abs(a), Abs(b), c)
    IN IF (a < 0) = (b < 0) THEN qr[1]
       ELSE IF qr[2] = 0 THEN -qr[1] ELSE -qr[1] - 1

\* x * rate for a periodic rate [num, den]
Times(x, rate) == MulDiv(x, rate.num, rate.den)

\* apr / 100.0 / 12.0, apr in hundredths of a percent
monthlyRate(apr) == [num |-> apr, den |-> 100 * 100 * 12]

\* apr / 100.0 / 365.0
dailyRate(apr) == [num |-> apr, den |-> 100 * 100 * 365]

\* sum of f[i] over lo..hi, by halving (the depth stays logarithmic)
RECURSIVE SumRange(_, _, _)
SumRange(f, lo, hi) ==
    IF lo > hi THEN 0
    ELSE IF lo = hi THEN f[lo]
    ELSE LET mid == (lo + hi) \div 2
         IN SumRange(f, lo, mid) + SumRange(f, mid + 1, hi)

---------------------------------------------------------------------------
(* Legacy single-loan calculator: AmortizationCalculator::calculate *)

NoReply == [status |-> 0, error |-> ""]

NoEntry == [type |-> "none"]

\* const int MAX_MONTHS = 1200 (legacy, credit card, generic fallback)
MAX_MONTHS == 1200

\* validateInput that lets a payment equal to the first month's interest through
validateInputStrict(req) ==
    IF req.principal <= 0 THEN "Principal must be positive"
    ELSE IF req.apr < 0 \/ req.apr > 100 * 100 THEN "APR must be between 0 and 100"
    ELSE IF req.monthlyPayment <= 0 THEN "Monthly payment must be positive"
    ELSE IF req.monthlyPayment < Times(req.principal, monthlyRate(req.apr))
         THEN "Monthly payment must exceed monthly interest"
    ELSE ""

\* validateInput without the test of the payment against the first month's
\* interest
validateInputAnyPayment(req) ==
    IF req.principal <= 0 THEN "Principal must be positive"
    ELSE IF req.apr < 0 \/ req.apr > 100 * 100 THEN "APR must be between 0 and 100"
    ELSE IF req.monthlyPayment <= 0 THEN "Monthly payment must be positive"
    ELSE ""

\* validateInput: "" when the request is valid, else the error category
validateInput(req) ==
    IF req.principal <= 0 THEN "Principal must be positive"
    ELSE IF req.apr < 0 \/ req.apr > 100 * 100 THEN "APR must be between 0 and 100"
    ELSE IF req.monthlyPayment <= 0 THEN "Monthly payment must be positive"
    ELSE IF req.monthlyPayment <= Times(req.principal, monthlyRate(req.apr))
         THEN "Monthly payment must exceed monthly interest"
    ELSE ""

\* the empty LoanResponse of calculate, totals zeroed
LegacyResponse(req) ==
    [principal |-> req.principal, apr |-> req.apr,
     monthlyPayment |-> req.monthlyPayment, events |-> <<>>,
     totalMonths |-> 0, totalInterest |-> 0, totalPaid |-> 0,
     totalPMI |-> 0, totalEscrow |-> 0]

\* LegacyStep with the months ordered as the README's algorithm section orders
\* them: interest on the starting balance first, payment afterwards
LegacyStepInterestFirst(m, b, monthlyPayment, rate) ==
    LET interest == Times(b, rate)
        pay == Min(monthlyPayment, b + interest)
        bal == b + interest - pay
    IN [event |-> [month |-> m, startBalance |-> b, interest |-> interest,
                   payment |-> pay, endBalance |-> Max(0, bal),
                   principalPaid |-> pay, pmiPayment |-> 0,
                   escrowPayment |-> 0, totalPayment |-> pay],
        balance |-> bal]

\* LegacyStep whose endBalance is computed from the configured payment, not
\* from the running balance: start - monthlyPayment + interest
LegacyStepFormulaEnd(m, b, monthlyPayment, rate) ==
    LET pay == Min(monthlyPayment, b)
        afterPay == b - pay
        interest == Times(afterPay, rate)
        bal == afterPay + interest
    IN [event |-> [month |-> m, startBalance |-> b, interest |-> interest,
                   payment |-> pay, endBalance |-> b - monthlyPayment + interest,
                   principalPaid |-> pay, pmiPayment |-> 0,
                   escrowPayment |-> 0, totalPayment |-> pay],
        balance |-> bal]

\* one iteration of calculate's loop, from running balance b in month m: the
\* event pushed and the running balance left for the next iteration
LegacyStep(m, b, monthlyPayment, rate) ==
    LET pay == Min(monthlyPayment, b)
        afterPay == b - pay
        interest == Times(afterPay, rate)
        bal == afterPay + interest
    IN [event |-> [month |-> m, startBalance |-> b, interest |-> interest,
                   payment |-> pay, endBalance |-> Max(0, bal),
                   principalPaid |-> pay, pmiPayment |-> 0,
                   escrowPayment |-> 0, totalPayment |-> pay],
        balance |-> bal]

---------------------------------------------------------------------------
(* Per-type calculators *)

\* fixed-point one of the power (1 + rate)^months: 1000 steps per rate unit
PowOne == 1000 * (100 * 100 * 12)

\* std::pow(base, n), base and result scaled by PowOne, by squaring
RECURSIVE Pow(_, _)
Pow(base, n) ==
    IF n = 0 THEN PowOne
    ELSE LET h == Pow(base, n \div 2)
         IN IF h = 0 THEN 0
            ELSE LET sq == MulDiv(h, h, PowOne)
                 IN IF n % 2 = 1 THEN MulDiv(sq, base, PowOne) ELSE sq

\* calculateAmortizationPayment(principal, rate, months), months > 0
calculateAmortizationPayment(principal, rate, months) ==
    IF rate.num = 0 THEN principal \div months
    ELSE LET r == rate.num * (PowOne \div rate.den)
             pw == Pow(PowOne + r, months)
         IN MulDiv(MulDiv(principal, r, PowOne), pw, pw - PowOne)

\* the LoanCalculationResult every calculator starts from
NewResult(e, rateField, pay, minPay) ==
    [loanId |-> e.id, loanType |-> e.type, principal |-> e.balance,
     interestRate |-> rateField, monthlyPayment |-> pay, events |-> <<>>,
     totalMonths |-> 0, totalInterest |-> 0, totalPaid |-> 0, totalPMI |-> 0,
     totalEscrow |-> 0, minimumPayment |-> minPay, vehicleValue |-> 0,
     equityPercent |-> 0]

\* PushEvent that adds the principal-and-interest payment, not totalPayment
PushEventPaymentOnly(res, ev) ==
    [res EXCEPT !.events = Append(@, ev),
                !.totalInterest = @ + ev.interest,
                !.totalPaid = @ + ev.payment]

\* result with one more event pushed and the running totals advanced
PushEvent(res, ev) ==
    [res EXCEPT !.events = Append(@, ev),
                !.totalInterest = @ + ev.interest,
                !.totalPaid = @ + ev.totalPayment]

\* ---- credit card ----

DAYS_PER_MONTH == 30

\* result.minimumPayment: max(balance * percent / 100, floor)
CreditCardMinimum(e) ==
    Max(MulDiv(e.balance, e.minimumPaymentPercent, 100 * 100), e.minimumPaymentFloor)

\* double payment = entry.monthlyPayment > 0 ? entry.monthlyPayment : minimum
CreditCardPayment(e) ==
    IF e.monthlyPayment > 0 THEN e.monthlyPayment ELSE CreditCardMinimum(e)

\* the 30-day compounding loop: <<dailyBalance, monthlyInterest>> after it
RECURSIVE CompoundDays(_, _, _, _)
CompoundDays(day, dailyBalance, monthlyInterest, rate) ==
    IF day >= DAYS_PER_MONTH THEN <<dailyBalance, monthlyInterest>>
    ELSE LET dayInterest == Times(dailyBalance, rate)
         IN CompoundDays(day + 1, dailyBalance + dayInterest,
                         monthlyInterest + dayInterest, rate)

\* the minimum recomputed from the month's balance when no payment was supplied
CreditCardStepRecomputed(m, b, pay, rate) ==
    LET c == CompoundDays(0, b, 0, rate)
        interest == c[2]
        due == IF entry.monthlyPayment > 0 THEN pay
               ELSE Max(MulDiv(b, entry.minimumPaymentPercent, 100 * 100),
                        entry.minimumPaymentFloor)
        paid == Min(due, c[1])
        bal == c[1] - paid
    IN [event |-> [month |-> m, startBalance |-> b, interest |-> interest,
                   payment |-> paid, endBalance |-> Max(0, bal),
                   principalPaid |-> paid - interest, pmiPayment |-> 0,
                   escrowPayment |-> 0, totalPayment |-> paid],
        balance |-> bal]

CreditCardStep(m, b, pay, rate) ==
    LET c == CompoundDays(0, b, 0, rate)
        interest == c[2]
        paid == Min(pay, c[1])
        bal == c[1] - paid
    IN [event |-> [month |-> m, startBalance |-> b, interest |-> interest,
                   payment |-> paid, endBalance |-> Max(0, bal),
                   principalPaid |-> paid - interest, pmiPayment |-> 0,
                   escrowPayment |-> 0, totalPayment |-> paid],
        balance |-> bal]

\* ---- personal loan ----

PersonalLoanPayment(e) ==
    IF e.monthlyPayment <= 0 /\ e.termMonths > 0
    THEN calculateAmortizationPayment(e.balance, monthlyRate(e.interestRate),
                                      e.termMonths)
    ELSE e.monthlyPayment

\* the cap that ignores the entry's term
PersonalLoanCapNoTerm(e) == MAX_MONTHS

PersonalLoanCap(e) == IF e.termMonths > 0 THEN e.termMonths ELSE MAX_MONTHS

PersonalLoanStep(m, b, pay, rate) ==
    LET interest == Times(b, rate)
        paid == Min(pay, b + interest)
        principalPaid == paid - interest
        bal == b - principalPaid
    IN [event |-> [month |-> m, startBalance |-> b, interest |-> interest,
                   payment |-> paid, endBalance |-> Max(0, bal),
                   principalPaid |-> principalPaid, pmiPayment |-> 0,
                   escrowPayment |-> 0, totalPayment |-> paid],
        balance |-> bal]

\* ---- auto loan ----

AutoLoanPayment(e) ==
    calculateAmortizationPayment(e.balance, monthlyRate(e.interestRate), e.termMonths)

\* vehicleValue after month m's depreciation; rates in percent per year
Depreciate(value, m, isUsed) ==
    LET annualDepreciation == IF isUsed THEN 10 ELSE 15
        firstYearBonus == IF isUsed THEN 5 ELSE 10
        monthlyDepreciation ==
            IF m <= 12
            THEN MulDiv(value, annualDepreciation + firstYearBonus, 100 * 12)
            ELSE MulDiv(value, annualDepreciation, 100 * 12)
    IN Max(0, value - monthlyDepreciation)

AutoLoanStep(m, b, pay, rate) ==
    LET interest == Times(b, rate)
        paid == Min(pay, b + interest)
        principalPaid == paid - interest
        bal == b - principalPaid
    IN [event |-> [month |-> m, startBalance |-> b, interest |-> interest,
                   payment |-> paid, endBalance |-> Max(0, bal),
                   principalPaid |-> principalPaid, pmiPayment |-> 0,
                   escrowPayment |-> 0, totalPayment |-> paid],
        balance |-> bal]

\* ---- mortgage ----

\* balance / homePrice <= pct / 100 in doubles; a zero homePrice makes the
\* quotient +inf, -inf or NaN, and NaN compares false
LtvAtMost(b, homePrice, pct) ==
    IF homePrice > 0 THEN b <= MulDiv(homePrice, pct, 100)
    ELSE IF homePrice = 0 THEN b < 0
    ELSE b >= -MulDiv(-homePrice, pct, 100)

\* balance / homePrice > pct / 100 in doubles
LtvAbove(b, homePrice, pct) ==
    IF homePrice > 0 THEN b > MulDiv(homePrice, pct, 100)
    ELSE IF homePrice = 0 THEN b > 0
    ELSE b < -MulDiv(-homePrice, pct, 100)

MortgageTermMonths(e) == e.termYears * 12

MortgagePI(e) ==
    calculateAmortizationPayment(e.balance, monthlyRate(e.interestRate),
                                 MortgageTermMonths(e))

\* monthlyTax + monthlyInsurance + hoaMonthly
MortgageEscrow(e) ==
    (e.propertyTaxAnnual \div 12) + (e.homeInsuranceAnnual \div 12) + e.hoaMonthly

\* monthlyPMI: on the original balance, only if original LTV > 80 % and pmiRate > 0
MortgagePMI(e) ==
    IF LtvAbove(e.balance, e.homePrice, 80) /\ e.pmiRate > 0
    THEN MulDiv(e.balance, e.pmiRate, 100 * 100) \div 12
    ELSE 0

\* PMI that is dropped only after month 24, at 78 % as at 80 %
MortgagePMIDueAfter24(bal, m, homePrice, monthlyPMI) ==
    IF LtvAtMost(bal, homePrice, 80) /\ m > 24 THEN 0 ELSE monthlyPMI

\* PMI that can be dropped at 80 % from the event of month 24 on
MortgagePMIDueFrom24(bal, m, homePrice, monthlyPMI) ==
    IF LtvAtMost(bal, homePrice, 78) THEN 0
    ELSE IF LtvAtMost(bal, homePrice, 80) /\ m >= 24 THEN 0
    ELSE monthlyPMI

\* the PMI charged in month m, decided on the balance after the principal reduction
MortgagePMIDue(bal, m, homePrice, monthlyPMI) ==
    IF LtvAtMost(bal, homePrice, 78) THEN 0
    ELSE IF LtvAtMost(bal, homePrice, 80) /\ m > 24 THEN 0
    ELSE monthlyPMI

MortgageStep(m, b, piPayment, rate, e) ==
    LET interest == Times(b, rate)
        paid == Min(piPayment, b + interest)
        principalPaid == paid - interest
        bal == b - principalPaid
        pmi == MortgagePMIDue(bal, m, e.homePrice, MortgagePMI(e))
        escrow == MortgageEscrow(e)
    IN [event |-> [month |-> m, startBalance |-> b, interest |-> interest,
                   payment |-> paid, endBalance |-> Max(0, bal),
                   principalPaid |-> principalPaid, pmiPayment |-> pmi,
                   escrowPayment |-> escrow, totalPayment |-> paid + pmi + escrow],
        balance |-> bal]

\* ((homePrice - balance) / homePrice) * 100, in hundredths of a percent; a
\* zero homePrice gives a non-finite double
EquityPercent(homePrice, bal) ==
    IF homePrice = 0
    THEN (IF bal > 0 THEN "-inf" ELSE IF bal < 0 THEN "+inf" ELSE "nan")
    ELSE IF homePrice > 0 THEN MulDiv(homePrice - bal, 100 * 100, homePrice)
    ELSE MulDiv(bal - homePrice, 100 * 100, -homePrice)

\* ---- student loan ----

StudentTermMonths(e) ==
    IF e.repaymentPlan = "standard" THEN 120
    ELSE IF e.repaymentPlan = "extended" THEN 300
    ELSE IF e.repaymentPlan = "graduated" THEN 120
    ELSE 300

\* const int MAX_MONTHS = termMonths + 60
StudentCap(e) == StudentTermMonths(e) + 60

StudentPayment(e) ==
    IF e.monthlyPayment <= 0
    THEN calculateAmortizationPayment(e.balance, monthlyRate(e.interestRate),
                                      StudentTermMonths(e))
    ELSE e.monthlyPayment

\* currentPayment of month m with the graduated rise taken as a fifth of 25 %
\* of the payment
StudentCurrentPaymentQuarter(m, pay, plan) ==
    IF plan = "graduated"
    THEN LET graduatedPayment == MulDiv(pay, 75, 100)
             graduatedIncrease == MulDiv(pay, 25, 100) \div 5
             period == (m - 1) \div 24
         IN Min(graduatedPayment + graduatedIncrease * period, MulDiv(pay, 150, 100))
    ELSE pay

\* currentPayment of month m
StudentCurrentPayment(m, pay, plan) ==
    IF plan = "graduated"
    THEN LET graduatedPayment == MulDiv(pay, 75, 100)
             graduatedIncrease == MulDiv(pay, 50, 100) \div 5
             period == (m - 1) \div 24
         IN Min(graduatedPayment + graduatedIncrease * period, MulDiv(pay, 150, 100))
    ELSE pay

\* StudentLoanStep without the guard on a negative principalPaid
StudentLoanStepUnclamped(m, b, pay, rate, plan) ==
    LET interest == Times(b, rate)
        paid == Min(StudentCurrentPayment(m, pay, plan), b + interest)
        principalPaid == paid - interest
        bal == b - principalPaid
    IN [event |-> [month |-> m, startBalance |-> b, interest |-> interest,
                   payment |-> paid, endBalance |-> Max(0, bal),
                   principalPaid |-> principalPaid, pmiPayment |-> 0,
                   escrowPayment |-> 0, totalPayment |-> paid],
        balance |-> bal]

StudentLoanStep(m, b, pay, rate, plan) ==
    LET interest == Times(b, rate)
        paid == Min(StudentCurrentPayment(m, pay, plan), b + interest)
        rawPrincipal == paid - interest
        principalPaid == IF rawPrincipal < 0 THEN 0 ELSE rawPrincipal
        bal == IF rawPrincipal < 0 THEN b + (interest - paid) ELSE b - rawPrincipal
    IN [event |-> [month |-> m, startBalance |-> b, interest |-> interest,
                   payment |-> paid, endBalance |-> Max(0, bal),
                   principalPaid |-> principalPaid, pmiPayment |-> 0,
                   escrowPayment |-> 0, totalPayment |-> paid],
        balance |-> bal]

\* ---- generic fallback of calculateLoan ----

FallbackStep(m, b, pay, rate) ==
    LET interest == Times(b, rate)
        paid == Min(pay, b + interest)
        principalPaid == paid - interest
        bal == b - principalPaid
    IN [event |-> [month |-> m, startBalance |-> b, interest |-> interest,
                   payment |-> paid, endBalance |-> Max(0, bal),
                   principalPaid |-> principalPaid, pmiPayment |-> 0,
                   escrowPayment |-> 0, totalPayment |-> paid],
        balance |-> bal]

---------------------------------------------------------------------------
(* Requests *)

\* a loan entry as parsed from JSON: an absent number reads as 0 (asDouble of
\* null), and the json.get defaults of the XxxEntry::fromJson are filled in
BaseEntry ==
    [id |-> "", type |-> "", balance |-> 0, apr |-> 0, interestRate |-> 0,
     monthlyPayment |-> 0, termMonths |-> 36, minimumPaymentPercent |-> 200,
     minimumPaymentFloor |-> 25 * Dollar, vehiclePrice |-> 0, isUsed |-> FALSE,
     termYears |-> 30, homePrice |-> 0, propertyTaxAnnual |-> 0,
     homeInsuranceAnnual |-> 0, pmiRate |-> 50, hoaMonthly |-> 0,
     repaymentPlan |-> "standard"]

CreditCard(id, bal, apr, pay) ==
    [BaseEntry EXCEPT !.id = id, !.type = "credit-card", !.balance = bal,
                      !.apr = apr, !.monthlyPayment = pay]

PersonalLoan(id, bal, rate, term, pay) ==
    [BaseEntry EXCEPT !.id = id, !.type = "personal-loan", !.balance = bal,
                      !.interestRate = rate, !.termMonths = term,
                      !.monthlyPayment = pay]

AutoLoan(id, bal, rate, term, price, used) ==
    [BaseEntry EXCEPT !.id = id, !.type = "auto-loan", !.balance = bal,
                      !.interestRate = rate, !.termMonths = term,
                      !.vehiclePrice = price, !.isUsed = used]

Mortgage(id, bal, rate, years, price, tax, insurance, hoa) ==
    [BaseEntry EXCEPT !.id = id, !.type = "mortgage", !.balance = bal,
                      !.interestRate = rate, !.termYears = years,
                      !.homePrice = price, !.propertyTaxAnnual = tax,
                      !.homeInsuranceAnnual = insurance, !.hoaMonthly = hoa]

StudentLoan(id, bal, rate, plan, pay) ==
    [BaseEntry EXCEPT !.id = id, !.type = "student-loan", !.balance = bal,
                      !.interestRate = rate, !.repaymentPlan = plan,
                      !.monthlyPayment = pay]

OtherLoan(id, bal, rate, pay) ==
    [BaseEntry EXCEPT !.id = id, !.type = "heloc", !.balance = bal,
                      !.interestRate = rate, !.monthlyPayment = pay]

\* entries whose schedules are short: the ones portfolios of several loans draw on
ShortEntries ==
    { CreditCard("cc-short", 1000 * Dollar, 1500, 200 * Dollar),
      PersonalLoan("pl-capped", 1000 * Dollar, 0, 6, 100 * Dollar),
      PersonalLoan("pl-zero", 1200 * Dollar, 0, 12, 0),
      Mortgage("mg-nohome", 12000 * Dollar, 0, 1, 0, 0, 0, 0),
      OtherLoan("fb-short", 2000 * Dollar, 1000, 100 * Dollar) }

LongEntries ==
    { CreditCard("cc-min-floor", 500 * Dollar, 1999, 0),
      CreditCard("cc-min-pct", 3000 * Dollar, 2400, 0),
      CreditCard("cc-cap", 1300 * Dollar, 0, 1 * Dollar),
      PersonalLoan("pl-derived", 5000 * Dollar, 899, 36, 0),
      PersonalLoan("pl-nopay", 600 * Dollar, 60, 0, 0),
      AutoLoan("al-new", 20000 * Dollar, 649, 60, 25000 * Dollar, FALSE),
      AutoLoan("al-used", 9600 * Dollar, 0, 48, 12000 * Dollar, TRUE),
      Mortgage("mg-pmi", 54000 * Dollar, 600, 15, 60000 * Dollar,
               1200 * Dollar, 600 * Dollar, 0),
      Mortgage("mg-nopmi", 45000 * Dollar, 500, 10, 60000 * Dollar,
               0, 0, 50 * Dollar),
      Mortgage("mg-slow", 40500 * Dollar, 600, 30, 50000 * Dollar, 0, 0, 0),
      Mortgage("mg-fast", 40500 * Dollar, 600, 10, 50000 * Dollar,
               600 * Dollar, 0, 0),
      StudentLoan("sl-standard", 10000 * Dollar, 550, "standard", 0),
      StudentLoan("sl-graduated", 10000 * Dollar, 680, "graduated", 0),
      StudentLoan("sl-negam", 20000 * Dollar, 600, "income-driven", 50 * Dollar),
      StudentLoan("sl-extended", 15000 * Dollar, 0, "extended", 0),
      OtherLoan("fb-cap", 1300 * Dollar, 0, 1 * Dollar),
      OtherLoan("fb-nopay", 500 * Dollar, 500, 0) }

\* the largest portfolio of several loans
MaxLoans == 2

Portfolios ==
    {<<>>} \cup { <<e>> : e \in ShortEntries \cup LongEntries }
           \cup UNION { [1..n -> ShortEntries] : n \in 2..MaxLoans }

LoanReq(principal, apr, monthlyPayment) ==
    [principal |-> principal, apr |-> apr, monthlyPayment |-> monthlyPayment]

\* bodies of POST /api/v1/loan/calculate
LegacyRequests ==
    { LoanReq(10000 * Dollar, 1899, 250 * Dollar),
      LoanReq(0, 500, 100 * Dollar),
      LoanReq(-100 * Dollar, 500, 100 * Dollar),
      LoanReq(1000 * Dollar, -1, 100 * Dollar),
      LoanReq(1000 * Dollar, 10001, 100 * Dollar),
      LoanReq(1000 * Dollar, 1200, 0),
      LoanReq(1000 * Dollar, 1200, -5 * Dollar),
      LoanReq(1000 * Dollar, 1200, 10 * Dollar),
      LoanReq(1000 * Dollar, 1200, 5 * Dollar),
      LoanReq(1000 * Dollar, 1200, 10 * Dollar + EPS),
      LoanReq(1000 * Dollar, 10000, 500 * Dollar),
      LoanReq(1300 * Dollar, 0, 1 * Dollar),
      LoanReq(100 * Dollar, 0, 30 * Dollar),
      LoanReq(90 * Dollar, 0, 30 * Dollar),
      LoanReq(100 * Dollar + EPS \div 2, 0, 50 * Dollar) }

---------------------------------------------------------------------------
(* Payoff strategy service: createLoanSnapshots, getLoanPriority,          *)
(* simulateStrategy, compareStrategies                                     *)

\* const maxMonths = 1200
maxMonths == 1200

\* calculateFallbackMinimum(balance, apr, termMonths)
calculateFallbackMinimum(bal, apr, termMonths) ==
    IF bal <= 0 THEN 0
    ELSE IF apr = 0 THEN bal \div termMonths
    ELSE LET r == apr * (PowOne \div (100 * 100 * 12))
             pw == Pow(PowOne + r, termMonths)
         IN Min(MulDiv(MulDiv(bal, r, PowOne), pw, pw - PowOne), bal)

\* one element of createLoanSnapshots' map; an absent minimumPayment is 0
LoanSnapshotOf(loan) ==
    LET given == IF loan.minimumPayment # 0 THEN loan.minimumPayment
                 ELSE loan.monthlyPayment
        termMonths == IF loan.totalMonths # 0 THEN loan.totalMonths ELSE 120
    IN [id |-> loan.loanId, balance |-> loan.principal, apr |-> loan.apr,
        minimumPayment |-> IF given = 0 \/ given <= 0
                           THEN calculateFallbackMinimum(loan.principal, loan.apr,
                                                         termMonths)
                           ELSE given,
        loanType |-> loan.loanType]

createLoanSnapshots(loanData) ==
    [i \in DOMAIN loanData.loans |-> LoanSnapshotOf(loanData.loans[i])]

\* the avalanche comparator with the APRs compared the other way round
PrecedesLowestApr(a, b, strategy) ==
    IF strategy = "avalanche"
    THEN IF b.apr # a.apr THEN a.apr - b.apr < 0 ELSE a.balance - b.balance < 0
    ELSE IF a.balance # b.balance THEN a.balance - b.balance < 0
         ELSE b.apr - a.apr < 0

\* the sort comparator of getLoanPriority is negative: a goes before b
Precedes(a, b, strategy) ==
    IF strategy = "avalanche"
    THEN IF b.apr # a.apr THEN b.apr - a.apr < 0 ELSE a.balance - b.balance < 0
    ELSE IF a.balance # b.balance THEN a.balance - b.balance < 0
         ELSE b.apr - a.apr < 0

\* getLoanPriority(loans, strategy): Array.prototype.sort is stable, so equal
\* loans keep their order
getLoanPriority(ls, strategy) ==
    IF strategy = "standard" THEN ls
    ELSE LET n == Len(ls)
             Rank(i) == 1 + Cardinality({ j \in 1..n :
                              \/ Precedes(ls[j], ls[i], strategy)
                              \/ (~Precedes(ls[i], ls[j], strategy) /\ j < i) })
         IN [k \in 1..n |-> ls[CHOOSE i \in 1..n : Rank(i) = k]]

\* the keys of the three per-call Maps
LoanIds(ls) == { ls[i].id : i \in DOMAIN ls }

\* the last loan of the list with the id: Map.set overwrites
LastWithId(ls, k) ==
    ls[CHOOSE i \in DOMAIN ls :
          ls[i].id = k /\ \A j \in DOMAIN ls : ls[j].id = k => j <= i]

\* the locals of simulateStrategy before its loop
SimulationStart(ls, extraPayment, strategy) ==
    [loans |-> ls, extraPayment |-> extraPayment, strategy |-> strategy,
     activeLoanBalances |-> [k \in LoanIds(ls) |-> LastWithId(ls, k).balance],
     loanInterestPaid |-> [k \in LoanIds(ls) |-> 0],
     loanTotalPaid |-> [k \in LoanIds(ls) |-> 0],
     monthlyEvents |-> <<>>, payoffOrder |-> <<>>, month |-> 0,
     freedMinPayments |-> 0]

NoSimulation == SimulationStart(<<>>, 0, "none")

\* remainingBalances.every(b => b <= 0.01)
AllPaidOff(s) ==
    \A k \in DOMAIN s.activeLoanBalances : s.activeLoanBalances[k] <= EPS

\* loans.filter(loan => (activeLoanBalances.get(loan.id) || 0) > 0.01)
ActiveLoans(s) ==
    SelectSeq(s.loans, LAMBDA loan : s.activeLoanBalances[loan.id] > EPS)

\* the standard strategy: the whole budget split evenly over the active loans
StandardPayments(s, activeLoans, totalExtra) ==
    LET mins == [i \in DOMAIN activeLoans |-> activeLoans[i].minimumPayment]
        totalMinimums == SumRange(mins, 1, Len(activeLoans))
        totalBudget == totalMinimums + totalExtra
        paymentPerLoan == totalBudget \div Len(activeLoans)
    IN [k \in LoanIds(activeLoans) |->
           Min(paymentPerLoan, s.activeLoanBalances[k])]

\* the for loop over priorityLoans that hands out the extra
RECURSIVE ApplyExtra(_, _, _, _, _)
ApplyExtra(priorityLoans, i, remainingExtra, loanPayments, bals) ==
    IF i > Len(priorityLoans) \/ remainingExtra <= 0 THEN loanPayments
    ELSE LET k == priorityLoans[i].id
             maxExtra == bals[k] - loanPayments[k]
         IN IF maxExtra > 0
            THEN LET extraToApply == Min(remainingExtra, maxExtra)
                 IN ApplyExtra(priorityLoans, i + 1, remainingExtra - extraToApply,
                               [loanPayments EXCEPT ![k] = @ + extraToApply], bals)
            ELSE ApplyExtra(priorityLoans, i + 1, remainingExtra, loanPayments, bals)

\* avalanche and snowball: minimums on all active loans, extra by priority
PriorityPayments(s, activeLoans, totalExtra) ==
    LET minimums == [k \in LoanIds(activeLoans) |->
                        Min(LastWithId(activeLoans, k).minimumPayment,
                            s.activeLoanBalances[k])]
    IN ApplyExtra(getLoanPriority(activeLoans, s.strategy), 1, totalExtra,
                  minimums, s.activeLoanBalances)

\* the sub-event of a loan paid off earlier, recorded as still open
PaidOffEventOpen(loan) ==
    [loanId |-> loan.id, startBalance |-> 0, payment |-> 0, interest |-> 0,
     endBalance |-> 0, isPaidOff |-> FALSE]

\* the sub-event of a loan that was paid off before the month
PaidOffEvent(loan) ==
    [loanId |-> loan.id, startBalance |-> 0, payment |-> 0, interest |-> 0,
     endBalance |-> 0, isPaidOff |-> TRUE]

\* the entry dated with the months completed before this one
PayoffEntryMonthBefore(loan, m, interestPaid, totalPaid) ==
    [loanId |-> loan.id, payoffMonth |-> m - 1,
     totalInterestPaid |-> interestPaid, totalPaid |-> totalPaid]

\* the PayoffOrderItem pushed when a loan is first paid off
PayoffEntry(loan, m, interestPaid, totalPaid) ==
    [loanId |-> loan.id, payoffMonth |-> m,
     totalInterestPaid |-> interestPaid, totalPaid |-> totalPaid]

\* a loan counted as paid off only at exactly zero
IsPaidOffAtZero(endBalance) == endBalance <= 0

\* const isPaidOff = endBalance <= 0.01
IsPaidOff(endBalance) == endBalance <= EPS

\* the freed minimums replaced by the latest loan's, not added to
FreedAfterLatestOnly(freed, loan, record) ==
    IF record THEN loan.minimumPayment ELSE freed

\* freedMinPayments grown by the minimum of every loan handled, paid off or not
FreedAfterAlways(freed, loan, record) == freed + loan.minimumPayment

\* freedMinPayments += loan.minimumPayment, when the payoff is recorded
FreedAfter(freed, loan, record) ==
    IF record THEN freed + loan.minimumPayment ELSE freed

\* the for loop over loans that applies the month's payments; acc holds the
\* Maps, payoffOrder, freedMinPayments and the month event under construction
RECURSIVE ApplyPayments(_, _, _, _, _)
ApplyPayments(ls, i, m, loanPayments, acc) ==
    IF i > Len(ls) THEN acc
    ELSE
      LET loan == ls[i]
          startBalance == acc.activeLoanBalances[loan.id]
      IN IF startBalance <= EPS
         THEN ApplyPayments(ls, i + 1, m, loanPayments,
                            [acc EXCEPT !.event.loans = Append(@, PaidOffEvent(loan))])
         ELSE
           LET paid == IF loan.id \in DOMAIN loanPayments
                       THEN loanPayments[loan.id] ELSE 0
               interest == Times(startBalance, monthlyRate(loan.apr))
               endBalance == Max(0, startBalance - paid + interest)
               isPaidOff == IsPaidOff(endBalance)
               interestPaid == acc.loanInterestPaid[loan.id] + interest
               totalPaid == acc.loanTotalPaid[loan.id] + paid
               record == isPaidOff /\ ~\E p \in DOMAIN acc.payoffOrder :
                                           acc.payoffOrder[p].loanId = loan.id
           IN ApplyPayments(ls, i + 1, m, loanPayments,
                [activeLoanBalances |->
                     [acc.activeLoanBalances EXCEPT ![loan.id] = endBalance],
                 loanInterestPaid |->
                     [acc.loanInterestPaid EXCEPT ![loan.id] = interestPaid],
                 loanTotalPaid |-> [acc.loanTotalPaid EXCEPT ![loan.id] = totalPaid],
                 payoffOrder |->
                     IF record
                     THEN Append(acc.payoffOrder,
                                 PayoffEntry(loan, m, interestPaid, totalPaid))
                     ELSE acc.payoffOrder,
                 freedMinPayments |-> FreedAfter(acc.freedMinPayments, loan, record),
                 event |->
                     [month |-> m,
                      loans |-> Append(acc.event.loans,
                                  [loanId |-> loan.id, startBalance |-> startBalance,
                                   payment |-> paid, interest |-> interest,
                                   endBalance |-> endBalance, isPaidOff |-> isPaidOff]),
                      totalPayment |-> acc.event.totalPayment + paid,
                      totalBalance |-> acc.event.totalBalance + endBalance]])

\* the running balances written into the loan objects themselves
LoansAfterInPlace(ls, done) ==
    [i \in DOMAIN ls |->
        [ls[i] EXCEPT !.balance = done.activeLoanBalances[ls[i].id]]]

\* the loans array after a month: the loop reads the loan objects and writes
\* only to its own Maps and arrays
LoansAfter(ls, done) == ls

\* one pass of the while loop of simulateStrategy, from month++ to
\* monthlyEvents.push(monthEvent); the loop's two break tests have passed
SimulateStep(s) ==
    LET m == s.month + 1
        activeLoans == ActiveLoans(s)
        totalExtra == s.extraPayment + s.freedMinPayments
        loanPayments == IF s.strategy = "standard"
                        THEN StandardPayments(s, activeLoans, totalExtra)
                        ELSE PriorityPayments(s, activeLoans, totalExtra)
        done == ApplyPayments(s.loans, 1, m, loanPayments,
                    [activeLoanBalances |-> s.activeLoanBalances,
                     loanInterestPaid |-> s.loanInterestPaid,
                     loanTotalPaid |-> s.loanTotalPaid,
                     payoffOrder |-> s.payoffOrder,
                     freedMinPayments |-> s.freedMinPayments,
                     event |-> [month |-> m, loans |-> <<>>, totalPayment |-> 0,
                                totalBalance |-> 0]])
    IN [s EXCEPT !.month = m,
                 !.loans = LoansAfter(@, done),
                 !.activeLoanBalances = done.activeLoanBalances,
                 !.loanInterestPaid = done.loanInterestPaid,
                 !.loanTotalPaid = done.loanTotalPaid,
                 !.payoffOrder = done.payoffOrder,
                 !.freedMinPayments = done.freedMinPayments,
                 !.monthlyEvents = Append(@, done.event)]

\* sum of the values of a Map
RECURSIVE SumValues(_, _)
SumValues(map, keys) ==
    IF keys = {} THEN 0
    ELSE LET k == CHOOSE x \in keys : TRUE
         IN map[k] + SumValues(map, keys \ {k})

\* a StrategyResult whose totalPaid counts only what went to principal
StrategyResultOfPrincipal(s) ==
    [strategy |-> s.strategy, totalMonths |-> s.month,
     totalInterest |-> SumValues(s.loanInterestPaid, DOMAIN s.loanInterestPaid),
     totalPaid |-> SumValues(s.loanTotalPaid, DOMAIN s.loanTotalPaid)
                   - SumValues(s.loanInterestPaid, DOMAIN s.loanInterestPaid),
     interestSaved |-> 0, monthsSaved |-> 0,
     payoffOrder |-> s.payoffOrder, monthlyEvents |-> s.monthlyEvents]

\* the StrategyResult simulateStrategy returns
StrategyResultOf(s) ==
    [strategy |-> s.strategy, totalMonths |-> s.month,
     totalInterest |-> SumValues(s.loanInterestPaid, DOMAIN s.loanInterestPaid),
     totalPaid |-> SumValues(s.loanTotalPaid, DOMAIN s.loanTotalPaid),
     interestSaved |-> 0, monthsSaved |-> 0,
     payoffOrder |-> s.payoffOrder, monthlyEvents |-> s.monthlyEvents]

\* a strategy result with its savings against the baseline filled in
WithSavings(res, baseline) ==
    [res EXCEPT !.interestSaved = baseline.totalInterest - res.totalInterest,
                !.monthsSaved = baseline.totalMonths - res.totalMonths]

\* the savings taken against the standard run at the same extra payment
ComparisonOfAgainstStandard(extraPayment, done) ==
    [extraPayment |-> extraPayment,
     strategies |-> [avalanche |-> WithSavings(done[2], done[4]),
                     snowball |-> WithSavings(done[3], done[4]),
                     standard |-> WithSavings(done[4], done[4])]]

\* the StrategyComparison built from the four runs, in the order they were made
ComparisonOf(extraPayment, done) ==
    [extraPayment |-> extraPayment,
     strategies |-> [avalanche |-> WithSavings(done[2], done[1]),
                     snowball |-> WithSavings(done[3], done[1]),
                     standard |-> WithSavings(done[4], done[1])]]

\* ---- inputs of the strategy service ----

Snapshot(id, bal, apr, minimumPayment) ==
    [id |-> id, balance |-> bal, apr |-> apr, minimumPayment |-> minimumPayment,
     loanType |-> "personal-loan"]

\* portfolios that pay off within a few years
PayingSnapshots ==
    { <<>>,
      << Snapshot("high", 1000 * Dollar, 2000, 50 * Dollar),
         Snapshot("low", 5000 * Dollar, 500, 150 * Dollar) >>,
      << Snapshot("x", 300 * Dollar, 1200, 30 * Dollar),
         Snapshot("y", 300 * Dollar, 1800, 25 * Dollar),
         Snapshot("z", 150 * Dollar, 1800, 25 * Dollar) >>,
      << Snapshot("gone", 0, 900, 20 * Dollar),
         Snapshot("left", 200 * Dollar, 1000, 50 * Dollar) >> }

\* portfolios whose minimum payments never pay them off within the cap
StuckSnapshots ==
    { << Snapshot("slow", 1300 * Dollar, 0, 1 * Dollar) >>,
      << Snapshot("flat", 3000 * Dollar, 120, 3 * Dollar),
         Snapshot("quick", 20 * Dollar, 600, 1 * Dollar) >> }

\* 5000 at 5 % and 1000 at 20 %, both with minimum payment 50
TwoRateSnapshots ==
    << Snapshot("five", 5000 * Dollar, 500, 50 * Dollar),
       Snapshot("twenty", 1000 * Dollar, 2000, 50 * Dollar) >>

ExtraPayments == { 0, 100 * Dollar }

Strategies == { "avalanche", "snowball", "standard" }

SimulateRequests ==
    { [loans |-> ls, extraPayment |-> x, strategy |-> s] :
          ls \in PayingSnapshots, x \in ExtraPayments, s \in Strategies }
    \cup { [loans |-> ls, extraPayment |-> 0, strategy |-> "avalanche"] :
               ls \in StuckSnapshots }
    \cup { [loans |-> TwoRateSnapshots, extraPayment |-> 100 * Dollar,
            strategy |-> s] : s \in { "avalanche", "snowball" } }

LoanResultOf(id, principal, apr, monthlyPayment, minimumPayment, totalMonths) ==
    [loanId |-> id, loanType |-> "personal-loan", principal |-> principal,
     apr |-> apr, monthlyPayment |-> monthlyPayment,
     minimumPayment |-> minimumPayment, totalMonths |-> totalMonths]

CompareRequests ==
    { [loanData |-> [loans |-> ld], extraPayment |-> x] :
          ld \in { << LoanResultOf("high", 1000 * Dollar, 2000, 50 * Dollar, 0, 24),
                      LoanResultOf("low", 5000 * Dollar, 500, 150 * Dollar, 0, 36) >>,
                   << LoanResultOf("card", 500 * Dollar, 1999, 40 * Dollar,
                                   25 * Dollar, 14),
                      LoanResultOf("derived", 600 * Dollar, 900, 0, 0, 0),
                      LoanResultOf("free", 240 * Dollar, 0, 0, 0, 24) >> },
          x \in ExtraPayments \cup { 10 * Dollar } }

---------------------------------------------------------------------------
(* Client-side what-if recomputation: displayData (App.tsx) and            *)
(* sliderResults (PaymentSlider.tsx)                                       *)

\* no recomputation has been started
NoClient == [pc |-> "idle"]

\* the payments the response on the page may have been computed with, for a
\* slider standing at sliderPayment
ShownPayments(sliderPayment) == { sliderPayment, 2 * sliderPayment }

\* the locals of either loop before its first iteration: balance =
\* loanData.principal, totalInterest = 0, month = 0, monthlyRate =
\* loanData.apr / 100 / 12, maxMonths = 1200
ClientStart(kind, loanData, sliderPayment) ==
    [pc |-> kind, kind |-> kind, loanData |-> loanData,
     sliderPayment |-> sliderPayment,
     monthlyRate |-> [num |-> loanData.apr, den |-> 100 * 100 * 12],
     maxMonths |-> 1200,
     balance |-> loanData.principal, totalInterest |-> 0, month |-> 0,
     events |-> <<>>, out |-> [events |-> <<>>]]

\* while (balance > 0.01 && month < maxMonths), in both loops
ClientLooping(c) == c.balance > EPS /\ c.month < c.maxMonths

\* one iteration of displayData's loop with interest charged on the starting
\* balance before the payment is taken
DisplayStepInterestFirst(c) ==
    LET m == c.month + 1
        startBalance == c.balance
        interest == Times(c.balance, c.monthlyRate)
        pay == Min(c.sliderPayment, c.balance + interest)
        bal == c.balance + interest - pay
    IN [c EXCEPT !.month = m, !.balance = bal,
                 !.totalInterest = @ + interest,
                 !.events = Append(@, [month |-> m, startBalance |-> startBalance,
                                       interest |-> interest, payment |-> pay,
                                       endBalance |-> Max(0, bal)])]

\* one iteration of displayData's loop
DisplayStep(c) ==
    LET m == c.month + 1
        startBalance == c.balance
        pay == Min(c.sliderPayment, c.balance)
        afterPay == c.balance - pay
        interest == Times(afterPay, c.monthlyRate)
        bal == afterPay + interest
    IN [c EXCEPT !.month = m, !.balance = bal,
                 !.totalInterest = @ + interest,
                 !.events = Append(@, [month |-> m, startBalance |-> startBalance,
                                       interest |-> interest, payment |-> pay,
                                       endBalance |-> Max(0, bal)])]

\* the LoanResponse displayData returns after its loop
DisplayResult(c) ==
    [principal |-> c.loanData.principal, apr |-> c.loanData.apr,
     monthlyPayment |-> c.sliderPayment, events |-> c.events,
     totalMonths |-> c.month, totalInterest |-> c.totalInterest]

\* one iteration of sliderResults' loop (no events are kept)
SliderStep(c) ==
    LET pay == Min(c.sliderPayment, c.balance)
        afterPay == c.balance - pay
        interest == Times(afterPay, c.monthlyRate)
    IN [c EXCEPT !.month = @ + 1, !.totalInterest = @ + interest,
                 !.balance = afterPay + interest]

\* return { months, totalInterest }
SliderResult(c) == [months |-> c.month, totalInterest |-> c.totalInterest]

---------------------------------------------------------------------------
(* State machine *)

NoResult == [events |-> <<>>]

NoComparison == [extraPayment |-> 0]

NoResponse ==
    [loans |-> <<>>, totalPrincipal |-> 0, totalInterest |-> 0,
     totalMonths |-> 0, totalMonthlyPayment |-> 0, totalPaid |-> 0]

Init ==
    /\ \/ op = "calculate" /\ request \in LegacyRequests
       \/ op = "calculateMultiple" /\ request \in { [loans |-> p] : p \in Portfolios }
       \/ op = "simulateStrategy" /\ request \in SimulateRequests
       \/ op = "compareStrategies" /\ request \in CompareRequests
    /\ pc = "entry"
    /\ idx = 0
    /\ entry = NoEntry
    /\ payment = 0
    /\ balance = 0
    /\ month = 0
    /\ vehicleValue = 0
    /\ result = NoResult
    /\ response = NoResponse
    /\ http = NoReply
    /\ snapshots = <<>>
    /\ sim = NoSimulation
    /\ runs = <<>>
    /\ comparison = NoComparison
    /\ client = NoClient

\* the iteration cap of the running calculator's while loop
LoopCap ==
    CASE pc = "credit-card" -> MAX_MONTHS
      [] pc = "personal-loan" -> PersonalLoanCap(entry)
      [] pc = "auto-loan" -> entry.termMonths
      [] pc = "mortgage" -> MortgageTermMonths(entry)
      [] pc = "student-loan" -> StudentCap(entry)
      [] pc = "fallback" -> MAX_MONTHS
      [] pc = "legacy" -> MAX_MONTHS
      [] OTHER -> 0

\* the loop condition without the 0.01 epsilon
LoopingNoEpsilon == balance > 0 /\ month < LoopCap

\* while (balance > 0.01 && month < cap)
Looping == balance > EPS /\ month < LoopCap

\* ---- POST /api/v1/loan/calculate ----

\* calculate throws std::invalid_argument; the controller answers 400
CalculateReject ==
    /\ op = "calculate" /\ pc = "entry"
    /\ validateInput(request) # ""
    /\ http' = [status |-> 400, error |-> validateInput(request)]
    /\ pc' = "replied"
    /\ UNCHANGED <<client, stratVars, op, request, idx, entry, payment, balance, month,
                   vehicleValue, result, response>>

CalculateBegin ==
    /\ op = "calculate" /\ pc = "entry"
    /\ validateInput(request) = ""
    /\ result' = LegacyResponse(request)
    /\ balance' = request.principal
    /\ payment' = request.monthlyPayment
    /\ month' = 0
    /\ pc' = "legacy"
    /\ UNCHANGED <<client, stratVars, op, request, idx, entry, vehicleValue, response, http>>

CalculateMonth ==
    /\ pc = "legacy" /\ Looping
    /\ LET s == LegacyStep(month + 1, balance, request.monthlyPayment,
                           monthlyRate(request.apr))
       IN /\ result' = PushEvent(result, s.event)
          /\ balance' = s.balance
    /\ month' = month + 1
    /\ UNCHANGED <<client, stratVars, op, pc, request, idx, entry, payment, vehicleValue, response, http>>

CalculateReturn ==
    /\ pc = "legacy" /\ ~Looping
    /\ result' = [result EXCEPT !.totalMonths = month]
    /\ http' = [status |-> 200, error |-> ""]
    /\ pc' = "replied"
    /\ UNCHANGED <<client, stratVars, op, request, idx, entry, payment, balance, month,
                   vehicleValue, response>>

\* ---- POST /api/v1/loan/calculate-multiple ----

\* if (request.loans.empty()): 400 "No loans provided"
MultipleReject ==
    /\ op = "calculateMultiple" /\ pc = "entry"
    /\ request.loans = <<>>
    /\ http' = [status |-> 400, error |-> "No loans provided"]
    /\ pc' = "replied"
    /\ UNCHANGED <<client, stratVars, op, request, idx, entry, payment, balance, month,
                   vehicleValue, result, response>>

\* the loop entered without the empty() test before it
MultipleBeginUnchecked ==
    /\ op = "calculateMultiple" /\ pc = "entry"
    /\ response' = NoResponse
    /\ idx' = 1
    /\ pc' = "calculateLoan"
    /\ UNCHANGED <<client, stratVars, op, request, entry, payment, balance, month, vehicleValue,
                   result, http>>

MultipleBegin ==
    /\ op = "calculateMultiple" /\ pc = "entry"
    /\ request.loans # <<>>
    /\ response' = NoResponse
    /\ idx' = 1
    /\ pc' = "calculateLoan"
    /\ UNCHANGED <<client, stratVars, op, request, entry, payment, balance, month, vehicleValue,
                   result, http>>

\* calculateLoan(loanEntry) entered for the idx-th loan: the code of the chosen
\* calculator up to its loop
Enter(e, pay, res, where) ==
    /\ entry' = e
    /\ payment' = pay
    /\ result' = res
    /\ balance' = e.balance
    /\ month' = 0
    /\ pc' = where
    /\ UNCHANGED <<client, stratVars, op, request, idx, response, http>>

CreditCardBegin ==
    /\ pc = "calculateLoan"
    /\ LET e == request.loans[idx]
       IN /\ e.type = "credit-card"
          /\ Enter(e, CreditCardPayment(e),
                   NewResult(e, e.apr, CreditCardPayment(e), CreditCardMinimum(e)),
                   "credit-card")
    /\ UNCHANGED vehicleValue

PersonalLoanBegin ==
    /\ pc = "calculateLoan"
    /\ LET e == request.loans[idx]
       IN /\ e.type = "personal-loan"
          /\ Enter(e, PersonalLoanPayment(e),
                   NewResult(e, e.interestRate, PersonalLoanPayment(e), 0),
                   "personal-loan")
    /\ UNCHANGED vehicleValue

AutoLoanBegin ==
    /\ pc = "calculateLoan"
    /\ LET e == request.loans[idx]
       IN /\ e.type = "auto-loan"
          /\ Enter(e, AutoLoanPayment(e),
                   NewResult(e, e.interestRate, AutoLoanPayment(e), 0),
                   "auto-loan")
          /\ vehicleValue' = e.vehiclePrice

MortgageBegin ==
    /\ pc = "calculateLoan"
    /\ LET e == request.loans[idx]
       IN /\ e.type = "mortgage"
          /\ Enter(e, MortgagePI(e),
                   NewResult(e, e.interestRate,
                             MortgagePI(e) + MortgageEscrow(e) + MortgagePMI(e), 0),
                   "mortgage")
    /\ UNCHANGED vehicleValue

StudentLoanBegin ==
    /\ pc = "calculateLoan"
    /\ LET e == request.loans[idx]
       IN /\ e.type = "student-loan"
          /\ Enter(e, StudentPayment(e),
                   NewResult(e, e.interestRate, StudentPayment(e), 0),
                   "student-loan")
    /\ UNCHANGED vehicleValue

KnownTypes == {"credit-card", "personal-loan", "auto-loan", "mortgage", "student-loan"}

FallbackBegin ==
    /\ pc = "calculateLoan"
    /\ LET e == request.loans[idx]
       IN /\ e.type \notin KnownTypes
          /\ Enter(e, e.monthlyPayment,
                   NewResult(e, e.interestRate, e.monthlyPayment, 0),
                   "fallback")
    /\ UNCHANGED vehicleValue

\* the loop body's effect on the shared locals, s the step taken
Iterate(s) ==
    /\ result' = PushEvent(result, s.event)
    /\ balance' = s.balance
    /\ month' = month + 1
    /\ UNCHANGED <<client, stratVars, op, pc, request, idx, entry, payment, response, http>>

CreditCardMonth ==
    /\ pc = "credit-card" /\ Looping
    /\ Iterate(CreditCardStep(month + 1, balance, payment, dailyRate(entry.apr)))
    /\ UNCHANGED vehicleValue

PersonalLoanMonth ==
    /\ pc = "personal-loan" /\ Looping
    /\ Iterate(PersonalLoanStep(month + 1, balance, payment,
                                monthlyRate(entry.interestRate)))
    /\ UNCHANGED vehicleValue

AutoLoanMonth ==
    /\ pc = "auto-loan" /\ Looping
    /\ vehicleValue' = Depreciate(vehicleValue, month + 1, entry.isUsed)
    /\ Iterate(AutoLoanStep(month + 1, balance, payment,
                            monthlyRate(entry.interestRate)))

MortgageMonth ==
    /\ pc = "mortgage" /\ Looping
    /\ LET s == MortgageStep(month + 1, balance, payment,
                             monthlyRate(entry.interestRate), entry)
       IN /\ result' = [PushEvent(result, s.event) EXCEPT
                           !.totalPMI = @ + s.event.pmiPayment,
                           !.totalEscrow = @ + s.event.escrowPayment]
          /\ balance' = s.balance
    /\ month' = month + 1
    /\ UNCHANGED <<client, stratVars, op, pc, request, idx, entry, payment, vehicleValue, response, http>>

StudentLoanMonth ==
    /\ pc = "student-loan" /\ Looping
    /\ Iterate(StudentLoanStep(month + 1, balance, payment,
                               monthlyRate(entry.interestRate),
                               entry.repaymentPlan))
    /\ UNCHANGED vehicleValue

FallbackMonth ==
    /\ pc = "fallback" /\ Looping
    /\ Iterate(FallbackStep(month + 1, balance, payment,
                            monthlyRate(entry.interestRate)))
    /\ UNCHANGED vehicleValue

\* the calculator's code after its loop: result.totalMonths = month and the
\* type's terminal fields; then calculateLoan returns to the controller
LoanReturn ==
    /\ pc \in KnownTypes \cup {"fallback"}
    /\ ~Looping
    /\ result' =
         [result EXCEPT
            !.totalMonths = month,
            !.vehicleValue = IF pc = "auto-loan" THEN vehicleValue ELSE @,
            !.equityPercent = IF pc = "mortgage"
                              THEN EquityPercent(entry.homePrice, balance) ELSE @]
    /\ pc' = "aggregate"
    /\ UNCHANGED <<client, stratVars, op, request, idx, entry, payment, balance, month,
                   vehicleValue, response, http>>

\* the aggregation with totalMonths added up like the other totals
AggregateSummingMonths(resp, loanResult) ==
    [loans |-> Append(resp.loans, loanResult),
     totalPrincipal |-> resp.totalPrincipal + loanResult.principal,
     totalInterest |-> resp.totalInterest + loanResult.totalInterest,
     totalMonthlyPayment |-> resp.totalMonthlyPayment + loanResult.monthlyPayment,
     totalPaid |-> resp.totalPaid + loanResult.totalPaid,
     totalMonths |-> resp.totalMonths + loanResult.totalMonths]

\* response.loans.push_back(loanResult) and the totals' update
Aggregate(resp, loanResult) ==
    [loans |-> Append(resp.loans, loanResult),
     totalPrincipal |-> resp.totalPrincipal + loanResult.principal,
     totalInterest |-> resp.totalInterest + loanResult.totalInterest,
     totalMonthlyPayment |-> resp.totalMonthlyPayment + loanResult.monthlyPayment,
     totalPaid |-> resp.totalPaid + loanResult.totalPaid,
     totalMonths |-> IF loanResult.totalMonths > resp.totalMonths
                     THEN loanResult.totalMonths ELSE resp.totalMonths]

\* the rest of the for loop's body, then the next loan or the 200 reply
MultipleAggregate ==
    /\ pc = "aggregate"
    /\ response' = Aggregate(response, result)
    /\ IF idx < Len(request.loans)
       THEN /\ idx' = idx + 1
            /\ pc' = "calculateLoan"
            /\ http' = http
       ELSE /\ idx' = idx
            /\ pc' = "replied"
            /\ http' = [status |-> 200, error |-> ""]
    /\ UNCHANGED <<client, stratVars, op, request, entry, payment, balance, month, vehicleValue, result>>

\* ---- simulateStrategy(loans, extraPayment, strategy) ----

SimulateBegin ==
    /\ op = "simulateStrategy" /\ pc = "entry"
    /\ snapshots' = request.loans
    /\ sim' = SimulationStart(request.loans, request.extraPayment, request.strategy)
    /\ pc' = "simulateStrategy"
    /\ UNCHANGED <<runs, comparison, op, request, calcVars, client>>

\* the two tests at the head of the loop: while (month < maxMonths) and the
\* break when every balance is <= 0.01 (the later break on an empty
\* activeLoans tests the same balances)
SimulateContinues == sim.month < maxMonths /\ ~AllPaidOff(sim)

SimulateMonth ==
    /\ pc = "simulateStrategy" /\ SimulateContinues
    /\ sim' = SimulateStep(sim)
    /\ UNCHANGED <<snapshots, runs, comparison, op, pc, request, calcVars, client>>

\* the code after the loop: the totals and the returned StrategyResult; the
\* loans array the call worked on is the caller's own array
SimulateReturn ==
    /\ pc = "simulateStrategy" /\ ~SimulateContinues
    /\ runs' = Append(runs, StrategyResultOf(sim))
    /\ snapshots' = sim.loans
    /\ pc' = IF op = "simulateStrategy" THEN "replied" ELSE "compareStrategies"
    /\ UNCHANGED <<sim, comparison, op, request, calcVars, client>>

\* ---- compareStrategies(loanData, extraPayment) ----

\* createLoanSnapshots, then the baseline run is entered
CompareBegin ==
    /\ op = "compareStrategies" /\ pc = "entry"
    /\ snapshots' = createLoanSnapshots(request.loanData)
    /\ sim' = SimulationStart(snapshots', 0, "standard")
    /\ pc' = "simulateStrategy"
    /\ UNCHANGED <<runs, comparison, op, request, calcVars, client>>

\* the avalanche, snowball and standard runs at the requested extra payment
CompareNext ==
    /\ pc = "compareStrategies" /\ Len(runs) < 4
    /\ sim' = SimulationStart(snapshots, request.extraPayment,
                              <<"avalanche", "snowball", "standard">>[Len(runs)])
    /\ pc' = "simulateStrategy"
    /\ UNCHANGED <<snapshots, runs, comparison, op, request, calcVars, client>>

\* the savings against the baseline and the returned StrategyComparison
CompareReturn ==
    /\ pc = "compareStrategies" /\ Len(runs) = 4
    /\ comparison' = ComparisonOf(request.extraPayment, runs)
    /\ pc' = "replied"
    /\ UNCHANGED <<snapshots, sim, runs, op, request, calcVars, client>>

\* ---- the page, once the response has arrived ----

\* the response of calculate is on the page and nothing is being recomputed
PageIdle == op = "calculate" /\ pc = "replied" /\ http.status = 200 /\ client.pc = "idle"

\* displayData with the slider at the payment of the request just answered;
\* the page holds loanData for the same principal and apr, computed with the
\* payment shown: if (sliderPayment === loanData.monthlyPayment) return loanData
DisplayBegin ==
    /\ PageIdle
    /\ \E shown \in ShownPayments(request.monthlyPayment) :
          LET loanData == IF shown = request.monthlyPayment THEN result
                          ELSE [principal |-> request.principal, apr |-> request.apr,
                                monthlyPayment |-> shown]
              c == ClientStart("displayData", loanData, request.monthlyPayment)
          IN client' = IF c.sliderPayment = loanData.monthlyPayment
                       THEN [c EXCEPT !.pc = "shown", !.out = loanData]
                       ELSE c
    /\ UNCHANGED <<stratVars, op, pc, request, calcVars>>

DisplayMonth ==
    /\ client.pc = "displayData" /\ ClientLooping(client)
    /\ client' = DisplayStep(client)
    /\ UNCHANGED <<stratVars, op, pc, request, calcVars>>

DisplayReturn ==
    /\ client.pc = "displayData" /\ ~ClientLooping(client)
    /\ client' = [client EXCEPT !.pc = "shown", !.out = DisplayResult(client)]
    /\ UNCHANGED <<stratVars, op, pc, request, calcVars>>

\* sliderResults for data = loanData with the slider where the effect on
\* loanData leaves it: setSliderPayment(loanData.monthlyPayment)
SliderBegin ==
    /\ PageIdle
    /\ client' = ClientStart("sliderResults", result, result.monthlyPayment)
    /\ UNCHANGED <<stratVars, op, pc, request, calcVars>>

SliderMonth ==
    /\ client.pc = "sliderResults" /\ ClientLooping(client)
    /\ client' = SliderStep(client)
    /\ UNCHANGED <<stratVars, op, pc, request, calcVars>>

SliderReturn ==
    /\ client.pc = "sliderResults" /\ ~ClientLooping(client)
    /\ client' = [client EXCEPT !.pc = "shown", !.out = SliderResult(client)]
    /\ UNCHANGED <<stratVars, op, pc, request, calcVars>>

Next ==
    \/ CalculateReject
    \/ CalculateBegin
    \/ CalculateMonth
    \/ CalculateReturn
    \/ MultipleReject
    \/ MultipleBegin
    \/ CreditCardBegin
    \/ PersonalLoanBegin
    \/ AutoLoanBegin
    \/ MortgageBegin
    \/ StudentLoanBegin
    \/ FallbackBegin
    \/ CreditCardMonth
    \/ PersonalLoanMonth
    \/ AutoLoanMonth
    \/ MortgageMonth
    \/ StudentLoanMonth
    \/ FallbackMonth
    \/ LoanReturn
    \/ MultipleAggregate
    \/ SimulateBegin
    \/ SimulateMonth
    \/ SimulateReturn
    \/ CompareBegin
    \/ CompareNext
    \/ CompareReturn
    \/ DisplayBegin
    \/ DisplayMonth
    \/ DisplayReturn
    \/ SliderBegin
    \/ SliderMonth
    \/ SliderReturn

Spec == Init /\ [][Next]_vars

---------------------------------------------------------------------------
(* Properties *)

\* calculate has returned its LoanResponse (the controller answered 200)
LegacyReturned == op = "calculate" /\ pc = "replied" /\ http.status = 200

\* calculateLoan has returned result to the controller
LoanReturned == pc = "aggregate"

Events == result.events

Last(q) == q[Len(q)]

\* ceil(a / b) for b > 0
CeilDiv(a, b) == -((-a) \div b)

Refused(req) ==
    \/ req.principal <= 0
    \/ req.apr < 0
    \/ req.apr > 100 * 100
    \/ req.monthlyPayment <= 0
    \/ req.monthlyPayment <= Times(req.principal, monthlyRate(req.apr))

\* C2: the legacy calculator validates before simulating: a request with
\* principal <= 0, apr outside 0..100, monthlyPayment <= 0 or monthlyPayment <=
\* principal * monthlyRate(apr) is answered with the invalid-argument error
\* (400) without any event or partial result; every other request runs the
\* simulation and is answered with its schedule (200).
C2_ValidateBeforeSimulate ==
    op = "calculate" =>
        /\ Refused(request) =>
              /\ pc \in {"entry", "replied"}
              /\ result = NoResult
              /\ balance = 0 /\ month = 0
              /\ pc = "replied" => (http.status = 400 /\ http.error # "")
        /\ ~Refused(request) =>
              /\ pc # "entry" => (result # NoResult /\ result.principal = request.principal)
              /\ pc = "replied" =>
                    /\ http = [status |-> 200, error |-> ""]
                    /\ result.totalMonths = Len(Events)
              /\ pc # "replied" => pc \in {"entry", "legacy"}

\* a request whose payment equals the first month's interest has been refused,
\* and so has one for each of the other reasons
C2_Witness ==
    /\ op = "calculate" /\ pc = "replied" /\ http.status = 400
    /\ request.principal > 0 /\ request.monthlyPayment > 0
    /\ request.monthlyPayment = Times(request.principal, monthlyRate(request.apr))

\* a single-loan calculator has returned its schedule in result
Returned == LegacyReturned \/ LoanReturned

\* the iteration cap of the calculator an entry is handed to
CapOf(e) ==
    IF e.type = "personal-loan"
    THEN (IF e.termMonths > 0 THEN e.termMonths ELSE 1200)
    ELSE IF e.type = "auto-loan" THEN e.termMonths
    ELSE IF e.type = "mortgage" THEN e.termYears * 12
    ELSE IF e.type = "student-loan"
         THEN (IF e.repaymentPlan \in {"standard", "graduated"} THEN 180 ELSE 360)
    ELSE 1200

\* the iteration cap of the calculator that returned the schedule
CapUsed == IF op = "calculate" THEN 1200 ELSE CapOf(entry)

\* C3: every simulation stays within its iteration cap and running into the
\* cap is not an error: the month counter and totalMonths never exceed 1200 in
\* the legacy, credit-card and fallback calculators and in simulateStrategy,
\* termMonths in the personal (termMonths > 0) and auto calculators,
\* termYears * 12 in the mortgage calculator and the plan's term + 60 in the
\* student calculator; a schedule cut by the cap with more than 0.01 still
\* owed is returned like any other (200 with one result per loan, a
\* StrategyResult from simulateStrategy).
C3_WithinIterationCap ==
    /\ op = "calculate" =>
          /\ month <= 1200
          /\ LegacyReturned => /\ result.totalMonths <= 1200
                               /\ Len(Events) = result.totalMonths
          /\ (pc = "replied" /\ ~Refused(request)) => http.status = 200
    /\ (op = "calculateMultiple" /\ pc \in KnownTypes \cup {"fallback", "aggregate"}) =>
          /\ month <= CapOf(entry)
          /\ Len(Events) = month
    /\ LoanReturned => result.totalMonths = month
    /\ (op = "calculateMultiple" /\ pc = "replied" /\ request.loans # <<>>) =>
          /\ http.status = 200
          /\ Len(response.loans) = Len(request.loans)
          /\ \A i \in DOMAIN response.loans :
                /\ response.loans[i].totalMonths <= CapOf(request.loans[i])
                /\ Len(response.loans[i].events) = response.loans[i].totalMonths
    /\ sim.month <= 1200
    /\ Len(sim.monthlyEvents) = sim.month
    /\ \A r \in DOMAIN runs : /\ runs[r].totalMonths <= 1200
                              /\ Len(runs[r].monthlyEvents) = runs[r].totalMonths
    /\ (op = "simulateStrategy" /\ pc = "replied") =>
          Len(runs) = 1 /\ runs[1].totalMonths = sim.month
    /\ (op = "compareStrategies" /\ pc = "replied") => Len(runs) = 4

\* a student loan whose payment does not cover its interest has run to its
\* plan's term + 60 months and has been answered with its cut schedule
C3_Witness ==
    /\ op = "calculateMultiple" /\ pc = "replied" /\ http.status = 200
    /\ request.loans[1].type = "student-loan"
    /\ response.loans[1].totalMonths = 300 + 60
    /\ Last(response.loans[1].events).endBalance > EPS

\* a strategy run has stopped at month 1200 with a loan still owed
C3_WitnessStrategy ==
    /\ op = "simulateStrategy" /\ pc = "replied"
    /\ runs[1].totalMonths = 1200
    /\ \E k \in DOMAIN sim.activeLoanBalances : sim.activeLoanBalances[k] > EPS

\* C4: every event of every schedule a single-loan calculator returns (legacy,
\* credit card, personal, auto, mortgage, student, generic fallback) has
\* endBalance >= 0.
C4_EndBalanceNonNegative ==
    Returned => \A i \in DOMAIN Events : Events[i].endBalance >= 0

\* a schedule whose last payment was cut to what was owed has been returned
C4_Witness ==
    /\ Returned
    /\ Len(Events) > 1
    /\ Last(Events).endBalance = 0
    /\ Last(Events).payment < result.monthlyPayment

\* the function i |-> field of event i, for the sums
EventField(field) == [i \in DOMAIN Events |-> Events[i][field]]

\* C5: the totals a single-loan calculator returns are the sums over the
\* events it returns: totalInterest = sum of interest, totalPaid = sum of
\* totalPayment, where a mortgage's totalPayment includes PMI and escrow.
C5_TotalsAreSums ==
    Returned =>
        /\ result.totalInterest = SumRange(EventField("interest"), 1, Len(Events))
        /\ result.totalPaid = SumRange(EventField("totalPayment"), 1, Len(Events))
        /\ \A i \in DOMAIN Events :
              Events[i].totalPayment =
                  Events[i].payment + Events[i].pmiPayment + Events[i].escrowPayment

\* a mortgage schedule with PMI and escrow in its payments has been returned
C5_Witness ==
    /\ LoanReturned
    /\ entry.type = "mortgage"
    /\ Len(Events) > 24
    /\ Events[1].pmiPayment > 0
    /\ Events[1].escrowPayment > 0
    /\ result.totalPaid > result.principal + result.totalInterest

\* the annual rate the returned schedule was computed with
RateUsed ==
    IF op = "calculate" THEN request.apr
    ELSE IF entry.type = "credit-card" THEN entry.apr ELSE entry.interestRate

\* the configured payment of the returned schedule
PaymentUsed == IF op = "calculate" THEN request.monthlyPayment ELSE payment

\* a returned run at rate zero with a constant positive configured payment
ZeroRateRun ==
    /\ Returned
    /\ RateUsed = 0
    /\ PaymentUsed > 0
    /\ ~(op # "calculate" /\ entry.type = "student-loan"
                          /\ entry.repaymentPlan = "graduated")

\* C6 as stated: a zero-rate run with constant positive payment P on principal
\* B has exactly ceil(B / P) events.
C6_Original ==
    ZeroRateRun => Len(Events) = CeilDiv(result.principal, PaymentUsed)

\* C6, amended: a zero-rate run with constant positive payment P on principal B
\* has exactly min(cap, N) events, N the least n >= 0 with B - n * P <= 0.01
\* and cap the calculator's iteration cap; the payments stop at the 0.01
\* epsilon and at the cap, not at ceil(B / P).
C6_ZeroRateMonths ==
    ZeroRateRun =>
        LET n == Max(0, CeilDiv(result.principal - EPS, PaymentUsed))
        IN /\ Len(Events) = Min(CapUsed, n)
           /\ \A i \in DOMAIN Events : Events[i].interest = 0
           /\ (CeilDiv(result.principal, PaymentUsed) <= CapUsed
               /\ result.principal - (CeilDiv(result.principal, PaymentUsed) - 1) * PaymentUsed > EPS)
              => Len(Events) = CeilDiv(result.principal, PaymentUsed)

\* a zero-rate run stopped by its cap short of ceil(B / P) months
C6_Witness ==
    /\ ZeroRateRun
    /\ Len(Events) = CapUsed
    /\ Len(Events) < CeilDiv(result.principal, PaymentUsed)
    /\ Last(Events).endBalance > EPS

\* a zero-rate run stopped by the epsilon one month short of ceil(B / P)
C6_WitnessEpsilon ==
    /\ ZeroRateRun
    /\ Len(Events) < CapUsed
    /\ Len(Events) = CeilDiv(result.principal, PaymentUsed) - 1

\* calculateCreditCard is in its loop or has returned its schedule
InCreditCard == pc = "credit-card" \/ (LoanReturned /\ entry.type = "credit-card")

\* a credit-card schedule has been returned
CreditCardReturned == LoanReturned /\ entry.type = "credit-card"

\* balance * minimumPaymentPercent / 100
PercentOf(b, e) == MulDiv(b, e.minimumPaymentPercent, 100 * 100)

\* C7: a credit card's result.minimumPayment is the larger of
\* balance * minimumPaymentPercent / 100 and minimumPaymentFloor, taken on the
\* starting balance; the configured payment is monthlyPayment when that is
\* positive and this minimum otherwise, and every month pays that same
\* configured amount (cut only to what is owed), whatever the balance has
\* shrunk to.
C7_MinimumPaymentFixed ==
    InCreditCard =>
        LET byPercent == PercentOf(entry.balance, entry)
            minimum == IF byPercent >= entry.minimumPaymentFloor
                       THEN byPercent ELSE entry.minimumPaymentFloor
            configured == IF entry.monthlyPayment > 0
                          THEN entry.monthlyPayment ELSE minimum
        IN /\ result.minimumPayment = minimum
           /\ result.monthlyPayment = configured
           /\ \A i \in DOMAIN Events :
                 Events[i].payment =
                     Min(configured, Events[i].startBalance + Events[i].interest)

\* a card without a supplied payment has paid its starting minimum in a month
\* whose balance would have given a smaller minimum, and a card whose minimum
\* is the floor has been returned too
C7_Witness ==
    /\ CreditCardReturned
    /\ entry.monthlyPayment <= 0
    /\ \E i \in DOMAIN Events :
          /\ Events[i].payment = result.minimumPayment
          /\ Max(PercentOf(Events[i].startBalance, entry), entry.minimumPaymentFloor)
                 < result.minimumPayment

\* a mortgage schedule has been returned
MortgageReturned == LoanReturned /\ entry.type = "mortgage"

\* event i's post-payment LTV is at most 78 %
Crossed(i) ==
    entry.homePrice > 0 /\ Events[i].endBalance <= MulDiv(entry.homePrice, 78, 100)

\* C8: in a mortgage schedule, once an event's post-payment LTV
\* (endBalance / homePrice) is at most 0.78, that event and every later one
\* has pmiPayment = 0.
C8_PMINeverReappears ==
    MortgageReturned =>
        \A i \in DOMAIN Events : \A j \in DOMAIN Events :
            (i <= j /\ Crossed(i)) => Events[j].pmiPayment = 0

\* a mortgage that paid PMI has crossed 78 % before month 24 and gone on
C8_Witness ==
    /\ MortgageReturned
    /\ Events[1].pmiPayment > 0
    /\ \E i \in DOMAIN Events : i < 24 /\ Crossed(i) /\ i + 12 < Len(Events)

\* the multi-loan handler has answered with its combined result
MultipleReplied == op = "calculateMultiple" /\ pc = "replied" /\ http.status = 200

LoanField(field) == [i \in DOMAIN response.loans |-> response.loans[i][field]]

\* C9: the combined result of a non-empty portfolio has totalMonths = the
\* largest totalMonths of its loans, totalPrincipal, totalInterest,
\* totalMonthlyPayment and totalPaid = the sums over its loans' results, and
\* one loan result per input loan, in input order.
C9_Aggregation ==
    MultipleReplied =>
        LET n == Len(response.loans)
        IN /\ n = Len(request.loans) /\ n > 0
           /\ \A i \in 1..n :
                 /\ response.loans[i].loanId = request.loans[i].id
                 /\ response.loans[i].loanType = request.loans[i].type
                 /\ response.loans[i].principal = request.loans[i].balance
           /\ \A i \in 1..n : response.loans[i].totalMonths <= response.totalMonths
           /\ \E i \in 1..n : response.loans[i].totalMonths = response.totalMonths
           /\ response.totalPrincipal = SumRange(LoanField("principal"), 1, n)
           /\ response.totalInterest = SumRange(LoanField("totalInterest"), 1, n)
           /\ response.totalMonthlyPayment = SumRange(LoanField("monthlyPayment"), 1, n)
           /\ response.totalPaid = SumRange(LoanField("totalPaid"), 1, n)

\* two loans of different lengths have been combined
C9_Witness ==
    /\ MultipleReplied
    /\ Len(response.loans) = 2
    /\ response.loans[1].totalMonths > response.loans[2].totalMonths
    /\ response.loans[2].totalMonths > 0
    /\ response.loans[1].totalInterest > 0

\* C10: a multi-loan request with no loans is answered 400 "No loans
\* provided"; no calculator is entered and no combined result is built.
C10_EmptyPortfolio ==
    (op = "calculateMultiple" /\ request.loans = <<>>) =>
        /\ pc \in {"entry", "replied"}
        /\ pc = "replied" => http = [status |-> 400, error |-> "No loans provided"]
        /\ entry = NoEntry
        /\ result = NoResult
        /\ response = NoResponse

\* the empty request has been answered
C10_Witness ==
    /\ op = "calculateMultiple" /\ request.loans = <<>>
    /\ pc = "replied" /\ http.status = 400

---------------------------------------------------------------------------
(* Payoff strategy properties *)

\* compareStrategies has returned its StrategyComparison
Compared == op = "compareStrategies" /\ pc = "replied"

\* the four runs of a comparison, in call order
Baseline == runs[1]

AvalancheRun == runs[2]

SnowballRun == runs[3]

StandardRun == runs[4]

\* C11 as stated: whatever the portfolio and the extraPayment >= 0, the
\* avalanche run accrues no more interest than the baseline run (standard,
\* extraPayment 0), so avalanche.interestSaved >= 0.
C11_Original ==
    Compared =>
        /\ AvalancheRun.totalInterest <= Baseline.totalInterest
        /\ comparison.strategies.avalanche.interestSaved >= 0

\* the loans of the portfolio have pairwise different APRs
DistinctAprs ==
    \A i \in DOMAIN snapshots : \A j \in DOMAIN snapshots :
        i # j => snapshots[i].apr # snapshots[j].apr

\* C12 as stated: for a portfolio with pairwise different APRs, avalanche has
\* the smallest totalInterest of the three strategies run at the same
\* extraPayment.
C12_Original ==
    (Compared /\ DistinctAprs) =>
        /\ AvalancheRun.totalInterest <= SnowballRun.totalInterest
        /\ AvalancheRun.totalInterest <= StandardRun.totalInterest

\* simulateStrategy has just returned: sim holds the locals it ended with and
\* the last of runs is its result
Simulated ==
    /\ op \in {"simulateStrategy", "compareStrategies"}
    /\ pc \in {"replied", "compareStrategies"}

LastRun == runs[Len(runs)]

\* the positions of the entries of a payoffOrder that name the loan id
EntriesOf(order, id) == { p \in DOMAIN order : order[p].loanId = id }

\* the loans that started above 0.01 and are at or below it when the run ends
Settled ==
    { i \in DOMAIN snapshots :
         snapshots[i].balance > EPS /\ sim.activeLoanBalances[snapshots[i].id] <= EPS }

\* C13 as stated: when simulateStrategy returns, payoffOrder has as many
\* entries as the portfolio has loans.
C13_Original ==
    Simulated => Len(LastRun.payoffOrder) = Len(snapshots)

\* C13, amended: when simulateStrategy returns, payoffOrder has exactly one
\* entry for each loan that started with a balance above 0.01 and has been
\* paid down to 0.01 or less, and no other entry; its length is the portfolio
\* size when every loan started above 0.01 and the run ended before month
\* 1200.
C13_PayoffOrderEntries ==
    Simulated =>
        LET order == LastRun.payoffOrder
        IN /\ Len(order) = Cardinality(Settled)
           /\ \A i \in Settled :
                 Cardinality(EntriesOf(order, snapshots[i].id)) = 1
           /\ \A p \in DOMAIN order :
                 \E i \in Settled : snapshots[i].id = order[p].loanId
           /\ ((\A i \in DOMAIN snapshots : snapshots[i].balance > EPS)
               /\ LastRun.totalMonths < 1200)
              => Len(order) = Len(snapshots)

\* a run over a portfolio with a loan that was already paid off has returned
\* with the other loan as payoffOrder's only entry
C13_Witness ==
    /\ Simulated
    /\ Len(snapshots) = 2
    /\ snapshots[1].balance <= EPS
    /\ Len(LastRun.payoffOrder) = 1
    /\ LastRun.payoffOrder[1].loanId = snapshots[2].id

\* a simulateStrategy call is running or has returned
InSimulation ==
    /\ op \in {"simulateStrategy", "compareStrategies"}
    /\ pc \in {"simulateStrategy", "replied", "compareStrategies"}

\* the position in the portfolio of the loan with the id
PositionOf(id) == CHOOSE i \in DOMAIN sim.loans : sim.loans[i].id = id

\* the months whose event shows the loan at the position as paid off
PaidOffMonths(i) ==
    { m \in DOMAIN sim.monthlyEvents : sim.monthlyEvents[m].loans[i].isPaidOff }

\* C14: payoffOrder lists the loans in the order they first reach
\* endBalance <= 0.01: payoffMonth never decreases along the list, no loan id
\* appears twice, each entry's payoffMonth is the first month whose sub-event
\* for that loan has isPaidOff = true, and loans paid off in the same month
\* stand in portfolio order.
C14_PayoffOrderSequence ==
    InSimulation =>
        LET order == sim.payoffOrder
        IN /\ \A p \in DOMAIN order : \A q \in DOMAIN order :
                 p < q =>
                    /\ order[p].payoffMonth <= order[q].payoffMonth
                    /\ order[p].loanId # order[q].loanId
                    /\ order[p].payoffMonth = order[q].payoffMonth
                          => PositionOf(order[p].loanId) < PositionOf(order[q].loanId)
           /\ \A p \in DOMAIN order :
                 LET i == PositionOf(order[p].loanId)
                 IN /\ order[p].payoffMonth \in PaidOffMonths(i)
                    /\ \A m \in PaidOffMonths(i) : order[p].payoffMonth <= m

\* two loans have been paid off in the same month after an earlier payoff
C14_Witness ==
    /\ InSimulation
    /\ \E p \in DOMAIN sim.payoffOrder : \E q \in DOMAIN sim.payoffOrder :
          /\ p < q
          /\ sim.payoffOrder[p].payoffMonth = sim.payoffOrder[q].payoffMonth
    /\ \E p \in DOMAIN sim.payoffOrder : \E q \in DOMAIN sim.payoffOrder :
          sim.payoffOrder[p].payoffMonth < sim.payoffOrder[q].payoffMonth

\* the avalanche run of the two-rate scenario with extraPayment 100
TwoRateAvalanche ==
    /\ op = "simulateStrategy"
    /\ request.loans = TwoRateSnapshots
    /\ request.extraPayment = 100 * Dollar
    /\ request.strategy = "avalanche"
    /\ pc \in {"simulateStrategy", "replied"}

\* the payment the month's event records for the loan with the id
PaymentIn(m, id) == sim.monthlyEvents[m].loans[PositionOf(id)].payment

\* C15: with 1000 at 20 % APR and 5000 at 5 % APR, both with minimum payment
\* 50, and extraPayment 100 under avalanche, the extra goes to the 20 % loan
\* first (it is paid 150 and the 5 % loan 50 while it is owed more than that)
\* and the 20 % loan is payoffOrder's first entry.
C15_AvalancheTargetsHighestRate ==
    TwoRateAvalanche =>
        /\ \A m \in DOMAIN sim.monthlyEvents :
              sim.monthlyEvents[m].loans[PositionOf("twenty")].startBalance > 150 * Dollar
                 => /\ PaymentIn(m, "twenty") = 150 * Dollar
                    /\ PaymentIn(m, "five") = 50 * Dollar
        /\ sim.payoffOrder # <<>> => sim.payoffOrder[1].loanId = "twenty"
        /\ pc = "replied" => /\ Len(LastRun.payoffOrder) = 2
                             /\ LastRun.payoffOrder[1].loanId = "twenty"
                             /\ LastRun.payoffOrder[2].loanId = "five"

\* the scenario's run has returned with both loans paid off
C15_Witness ==
    /\ TwoRateAvalanche /\ pc = "replied"
    /\ PaymentIn(1, "twenty") = 150 * Dollar
    /\ LastRun.payoffOrder[1].payoffMonth < LastRun.payoffOrder[2].payoffMonth

\* the minimum payment of the loan a payoffOrder entry names
MinimumOf(item) == sim.loans[PositionOf(item.loanId)].minimumPayment

\* the sum of the minimums of the payoffOrder entries that satisfy Keep
FreedBy(Keep(_)) ==
    LET order == sim.payoffOrder
        part == [p \in DOMAIN order |->
                    IF Keep(order[p]) THEN MinimumOf(order[p]) ELSE 0]
    IN SumRange(part, 1, Len(order))

\* the minimums of the loans paid off before month m
FreedBefore(m) == FreedBy(LAMBDA item : item.payoffMonth < m)

\* the month's total payment as the budget rules give it from the extra pool
\* extraPayment + FreedBefore(m)
BudgetedPayment(m) ==
    LET subs == sim.monthlyEvents[m].loans
        n == Len(subs)
        active(i) == subs[i].startBalance > EPS
        count == Cardinality({ i \in 1..n : active(i) })
        totalExtra == sim.extraPayment + FreedBefore(m)
        minimum == [i \in 1..n |-> IF active(i) THEN sim.loans[i].minimumPayment ELSE 0]
        floorPay == [i \in 1..n |->
                        IF active(i) THEN Min(sim.loans[i].minimumPayment,
                                              subs[i].startBalance) ELSE 0]
        room == [i \in 1..n |-> IF active(i) THEN subs[i].startBalance - floorPay[i]
                                ELSE 0]
        perLoan == (SumRange(minimum, 1, n) + totalExtra) \div count
        even == [i \in 1..n |-> IF active(i) THEN Min(perLoan, subs[i].startBalance)
                                ELSE 0]
    IN IF sim.strategy = "standard" THEN SumRange(even, 1, n)
       ELSE SumRange(floorPay, 1, n)
            + Min(Max(totalExtra, 0), SumRange(room, 1, n))

\* C16: at the start of every simulated month freedMinPayments is the sum of
\* the minimum payments of exactly the loans recorded in payoffOrder (each
\* added once, in its payoff month, and never taken back), and a loan's
\* minimum enlarges the extra pool extraPayment + freedMinPayments from the
\* month after its payoff: the payments of the month just simulated are those
\* the pool of the loans paid off before that month gives.
C16_Rollover ==
    InSimulation =>
        /\ sim.freedMinPayments = FreedBy(LAMBDA item : TRUE)
        /\ sim.month > 0 =>
              sim.monthlyEvents[sim.month].totalPayment = BudgetedPayment(sim.month)

\* two loans have been paid off in different months and a later month has
\* paid with both minimums in the pool
C16_Witness ==
    /\ InSimulation
    /\ Len(sim.payoffOrder) >= 2
    /\ sim.payoffOrder[1].payoffMonth < sim.payoffOrder[2].payoffMonth
    /\ sim.month > sim.payoffOrder[2].payoffMonth
    /\ FreedBefore(sim.month) = MinimumOf(sim.payoffOrder[1]) + MinimumOf(sim.payoffOrder[2])
    /\ sim.monthlyEvents[sim.month].totalPayment > 0

\* the locals of simulateStrategy when its loop ends, started from s
RECURSIVE RunFrom(_)
RunFrom(s) ==
    IF s.month < maxMonths /\ ~AllPaidOff(s)
    THEN LET next == SimulateStep(s)
         IN IF next.month = 0 THEN next ELSE RunFrom(next)
    ELSE s

\* what one call simulateStrategy(loans, extraPayment, strategy) returns
StandAlone(ls, extraPayment, strategy) ==
    StrategyResultOf(RunFrom(SimulationStart(ls, extraPayment, strategy)))

\* a strategy result as simulateStrategy returned it, before the savings
WithoutSavings(res) == [res EXCEPT !.interestSaved = 0, !.monthsSaved = 0]

\* C17: compareStrategies runs the standard strategy with extraPayment 0 as
\* the baseline and avalanche, snowball and standard with the requested
\* extraPayment, all on the snapshots of the loan data; each of the three
\* returned results carries interestSaved = baseline.totalInterest - its
\* totalInterest and monthsSaved = baseline.totalMonths - its totalMonths, and
\* the returned extraPayment is the requested one.
C17_SavingsAgainstBaseline ==
    Compared =>
        LET loans == createLoanSnapshots(request.loanData)
            baseline == StandAlone(loans, 0, "standard")
        IN /\ comparison.extraPayment = request.extraPayment
           /\ Baseline = baseline
           /\ \A name \in Strategies :
                 LET res == comparison.strategies[name]
                 IN /\ WithoutSavings(res)
                          = StandAlone(loans, request.extraPayment, name)
                    /\ res.interestSaved = baseline.totalInterest - res.totalInterest
                    /\ res.monthsSaved = baseline.totalMonths - res.totalMonths

\* a comparison at a positive extra payment has returned: the standard run
\* differs from the baseline and shows savings against it
C17_Witness ==
    /\ Compared
    /\ request.extraPayment > 0
    /\ comparison.strategies.standard.interestSaved > 0
    /\ comparison.strategies.standard.monthsSaved > 0
    /\ comparison.strategies.avalanche.interestSaved
           # comparison.strategies.standard.interestSaved

\* the snapshot list the call or the comparison was given
GivenSnapshots ==
    IF op = "compareStrategies" THEN createLoanSnapshots(request.loanData)
    ELSE request.loans

\* the arguments of the k-th simulateStrategy call of the request
ExtraOfRun(k) ==
    IF op = "compareStrategies" /\ k = 1 THEN 0 ELSE request.extraPayment

StrategyOfRun(k) ==
    IF op = "compareStrategies"
    THEN <<"standard", "avalanche", "snowball", "standard">>[k]
    ELSE request.strategy

\* C19: simulateStrategy leaves its input alone: during and after every run
\* the LoanSnapshot list is the one that was given (same ids, order, balance,
\* apr, minimumPayment), so each of the four runs of compareStrategies starts
\* from the same snapshots and returns what a stand-alone call with the same
\* arguments returns.
C19_InputUnchanged ==
    InSimulation =>
        /\ sim.loans = GivenSnapshots
        /\ snapshots = GivenSnapshots
        /\ \A k \in DOMAIN runs : runs[k].strategy = StrategyOfRun(k)
        /\ pc = "compareStrategies" =>
              \A k \in DOMAIN runs :
                  runs[k] = StandAlone(GivenSnapshots, ExtraOfRun(k), StrategyOfRun(k))

\* the last run of a comparison has returned after runs that paid loans off
C19_Witness ==
    /\ op = "compareStrategies" /\ pc = "compareStrategies"
    /\ Len(runs) = 4
    /\ \A k \in DOMAIN runs : runs[k].payoffOrder # <<>>
    /\ \E i \in DOMAIN snapshots : sim.activeLoanBalances[snapshots[i].id] # snapshots[i].balance

---------------------------------------------------------------------------
(* Client recomputation properties *)

\* one of the page's loops is between two iterations, or about to return
ClientRunning == client.pc \in {"displayData", "sliderResults"}

\* a recomputation has returned its value in client.out
ClientShown == client.pc = "shown"

\* the (startBalance, payment, interest, endBalance) of a schedule row
Row(e) == <<e.month, e.startBalance, e.payment, e.interest, e.endBalance>>

\* C18: the page's recomputation loops step exactly like calculate: for the
\* principal, apr and payment of a request calculate accepted, displayData
\* returns the same totalMonths, the same totalInterest and, month by month,
\* the same (startBalance, payment, interest, endBalance) as calculate, and
\* sliderResults the same months and totalInterest; while either loop runs
\* it has taken no more iterations than calculate took, it goes on only where
\* calculate went on (0.01 epsilon and 1200-month cap alike), and its balance
\* and latest row are those of calculate's event for that month.
C18_ClientStepsLikeEngine ==
    /\ ClientRunning =>
          /\ client.month <= result.totalMonths
          /\ ClientLooping(client) <=> client.month < result.totalMonths
          /\ client.month > 0 =>
                /\ Max(0, client.balance) = Events[client.month].endBalance
                /\ client.kind = "displayData" =>
                      Row(client.events[client.month]) = Row(Events[client.month])
    /\ ClientShown /\ client.kind = "displayData" =>
          /\ client.out.totalMonths = result.totalMonths
          /\ client.out.totalInterest = result.totalInterest
          /\ Len(client.out.events) = Len(Events)
          /\ \A i \in 1..Len(Events) : Row(client.out.events[i]) = Row(Events[i])
    /\ ClientShown /\ client.kind = "sliderResults" =>
          /\ client.out.months = result.totalMonths
          /\ client.out.totalInterest = result.totalInterest

\* displayData has run its loop (the page showed another payment) for several
\* months at a positive rate and returned, the last month having ended with
\* the payment covering the whole balance
C18_Witness ==
    /\ ClientShown /\ client.kind = "displayData"
    /\ client.loanData.monthlyPayment # client.sliderPayment
    /\ client.loanData.apr > 0
    /\ Len(client.out.events) >= 2
    /\ client.out.totalInterest > 0
    /\ Last(client.out.events).payment < client.sliderPayment

---------------------------------------------------------------------------
(* Documented algorithm of POST /api/v1/loan/calculate *)

\* the request of the README's API reference
ReadmeRequest == LoanReq(10000 * Dollar, 1899, 250 * Dollar)

\* calculate is in its loop or has returned, with at least one event pushed
LegacyStepped ==
    /\ op = "calculate" /\ pc \in {"legacy", "replied"}
    /\ Len(Events) > 0

\* C20: as the README documents, each month calculate first computes
\* interest = balance * (apr / 100 / 12) on the month's starting balance, adds
\* it to the balance, then subtracts the payment and records the event; for
\* principal = 10000, apr = 18.99, monthlyPayment = 250 the first event has
\* interest 158.25 and endBalance 9908.25.
C20_Original ==
    LegacyStepped =>
        /\ LET e == Last(Events)
               interest == Times(e.startBalance, monthlyRate(request.apr))
           IN /\ e.interest = interest
              /\ e.endBalance = Max(0, e.startBalance + interest - e.payment)
        /\ request = ReadmeRequest =>
              /\ Events[1].interest = 158 * Dollar + 25 * EPS
              /\ Events[1].endBalance = 9908 * Dollar + 25 * EPS

---------------------------------------------------------------------------
(* Student loan properties *)

\* calculateStudentLoan is in its loop or has returned, with an event pushed
InStudentLoan ==
    /\ pc = "student-loan" \/ (LoanReturned /\ entry.type = "student-loan")
    /\ Len(Events) > 0

\* the 24-month period of an event: (month - 1) / 24
PeriodOf(e) == (e.month - 1) \div 24

\* the payment of event e is the graduated amount of its period, percent of
\* the standard payment at the start plus rise percent per period, cut to what
\* is owed and never above 150 % (amounts compared in hundredths of a unit,
\* one unit of rounding allowed per term)
GraduatedBy(e, rise) ==
    LET k == PeriodOf(e)
        S == result.monthlyPayment
        ramp == (75 + rise * k) * S
        owed == e.startBalance + e.interest
    IN /\ 100 * e.payment <= 150 * S
       /\ e.payment <= owed
       /\ e.payment < owed =>
             /\ 100 * e.payment <= ramp
             /\ 100 * e.payment >= ramp - 100 * (k + 1)

\* C21 as claimed: the graduated payment of month m is
\* min(0.75 * S + k * (0.25 * S / 5), 1.5 * S), k = floor((m - 1) / 24)
C21_Original ==
    (InStudentLoan /\ entry.repaymentPlan = "graduated") =>
        GraduatedBy(Last(Events), 5)

\* C21: for a student loan on the graduated plan with standard fixed payment
\* S, the configured payment in month m is
\* min(0.75 * S + k * (0.50 * S / 5), 1.5 * S) where k = floor((m - 1) / 24):
\* it starts at 75 % of S, rises by one fifth of 50 % of S at each 24-month
\* boundary, and never exceeds 150 % of S.
C21_GraduatedPayment ==
    (InStudentLoan /\ entry.repaymentPlan = "graduated") =>
        GraduatedBy(Last(Events), 10)

\* a graduated loan is in its fourth period, paying more than the standard
\* payment and less than what is owed
C21_Witness ==
    /\ InStudentLoan /\ entry.repaymentPlan = "graduated"
    /\ PeriodOf(Last(Events)) = 3
    /\ Last(Events).payment > result.monthlyPayment
    /\ Last(Events).payment < Last(Events).startBalance + Last(Events).interest

\* C22: in the student-loan calculator, a month whose payment is smaller than
\* the accrued interest records principalPaid = 0 (never negative) and the
\* balance grows by exactly interest - payment, so endBalance = startBalance +
\* interest - payment > startBalance; in every other month the balance falls
\* by payment - interest.
C22_NegativeAmortization ==
    InStudentLoan =>
        LET e == Last(Events)
        IN /\ e.principalPaid >= 0
           /\ e.payment < e.interest =>
                 /\ e.principalPaid = 0
                 /\ e.endBalance = e.startBalance + e.interest - e.payment
                 /\ e.endBalance > e.startBalance
           /\ e.payment >= e.interest =>
                 /\ e.principalPaid = e.payment - e.interest
                 /\ e.endBalance = e.startBalance - (e.payment - e.interest)
           /\ pc = "student-loan" => balance = e.endBalance

\* a student loan whose payment is below the interest has grown for a second
\* month running
C22_Witness ==
    /\ InStudentLoan
    /\ Len(Events) >= 2
    /\ Last(Events).payment > 0
    /\ Last(Events).payment < Last(Events).interest
    /\ Last(Events).startBalance > Events[1].startBalance

---------------------------------------------------------------------------
(* Mortgage PMI properties *)

\* calculateMortgage is in its loop or has returned, with an event pushed
InMortgage ==
    /\ pc = "mortgage" \/ MortgageReturned
    /\ Len(Events) > 0

\* the LTV after event e's principal reduction is at most pct percent (the
\* quotient by a zero homePrice is infinite or NaN and at most nothing)
LtvAfterAtMost(e, pct) ==
    entry.homePrice > 0 /\ e.endBalance <= MulDiv(entry.homePrice, pct, 100)

\* the fixed monthlyPMI of the entry: balance * pmiRate / 100 / 12 on the
\* original balance when the original LTV exceeds 0.80 and pmiRate > 0
FixedPMI ==
    IF /\ entry.pmiRate > 0
       /\ \/ entry.homePrice = 0 /\ entry.balance > 0
          \/ entry.homePrice > 0
             /\ entry.balance > MulDiv(entry.homePrice, 80, 100)
    THEN MulDiv(entry.balance, entry.pmiRate, 100 * 100) \div 12
    ELSE 0

\* event e charges no PMI when its LTV is at most 0.78, or at most 0.80 with
\* its month at least first, and the fixed monthlyPMI otherwise
PMIRule(e, first) ==
    e.pmiPayment =
        IF LtvAfterAtMost(e, 78) \/ (LtvAfterAtMost(e, 80) /\ e.month >= first)
        THEN 0 ELSE FixedPMI

\* C23 as claimed: the 0.80 threshold applies once at least 24 months have
\* elapsed, the event of month 24 already qualifying
C23_Original == InMortgage => PMIRule(Last(Events), 24)

\* C23: in every mortgage event, pmiPayment is 0 if the LTV after that month's
\* principal reduction is <= 0.78, or if that LTV is <= 0.80 and more than 24
\* months have elapsed (the event of month 25 is the first to qualify);
\* otherwise pmiPayment equals the fixed monthlyPMI, which is
\* balance * pmiRate / 100 / 12 on the original balance when original
\* LTV > 0.80 and pmiRate > 0, and 0 otherwise.
C23_PMISchedule == InMortgage => PMIRule(Last(Events), 25)

\* the event of month 24 of a mortgage that pays PMI leaves the LTV between
\* 0.78 and 0.80 and still charges the PMI
C23_Witness ==
    /\ InMortgage
    /\ Last(Events).month = 24
    /\ LtvAfterAtMost(Last(Events), 80) /\ ~LtvAfterAtMost(Last(Events), 78)
    /\ FixedPMI > 0
    /\ Last(Events).pmiPayment = FixedPMI

---------------------------------------------------------------------------
(* Configured payment of calculateLoan *)

\* one of the calculators behind calculateLoan is in its loop or has returned
InCalculateLoan ==
    \/ pc \in {"credit-card", "personal-loan", "auto-loan", "mortgage",
               "student-loan", "fallback"}
    \/ LoanReturned

\* C24: for every loan type reachable through calculateLoan, the generic
\* fallback included, an entry whose monthlyPayment is absent or <= 0 gets a
\* positive derived payment that is used (result.monthlyPayment > 0 and every
\* event's payment > 0), and an entry with monthlyPayment > 0 has that value
\* as its configured payment.
C24_Original ==
    InCalculateLoan =>
        /\ entry.monthlyPayment <= 0 =>
              /\ result.monthlyPayment > 0
              /\ Len(Events) > 0 => Last(Events).payment > 0
        /\ entry.monthlyPayment > 0 =>
              result.monthlyPayment = entry.monthlyPayment

---------------------------------------------------------------------------
(* Priority of the extra pool *)

\* an avalanche or snowball run has simulated at least one month
InPriorityRun ==
    /\ InSimulation
    /\ sim.strategy \in {"avalanche", "snowball"}
    /\ sim.month > 0

\* loan i goes before loan j in the strategy's priority when the balances
\* bal are the ones compared: avalanche = descending APR, ties by ascending
\* balance; snowball = ascending balance, ties by descending APR
GoesBefore(i, j, bal) ==
    LET a == sim.loans[i]
        b == sim.loans[j]
    IN IF sim.strategy = "avalanche"
       THEN a.apr > b.apr \/ (a.apr = b.apr /\ bal[i] < bal[j])
       ELSE bal[i] < bal[j] \/ (bal[i] = bal[j] /\ a.apr > b.apr)

\* the month's payments are the minimums (cut to the balance) of the active
\* loans plus the extra pool handed out in the priority order of bal: a loan
\* gets extra only when every active loan before it is paid in full
ExtraByPriority(m, bal) ==
    LET subs == sim.monthlyEvents[m].loans
        n == Len(subs)
        active(i) == subs[i].startBalance > EPS
        floorPay(i) == Min(sim.loans[i].minimumPayment, subs[i].startBalance)
    IN \A i \in 1..n :
          active(i) =>
             /\ subs[i].payment >= floorPay(i)
             /\ subs[i].payment <= subs[i].startBalance
             /\ \A j \in 1..n :
                   (active(j) /\ GoesBefore(i, j, bal) /\ subs[j].payment > floorPay(j))
                      => subs[i].payment = subs[i].startBalance

\* the running balances at the start of month m
StartBalances(m) ==
    [i \in DOMAIN sim.loans |-> sim.monthlyEvents[m].loans[i].startBalance]

\* C25: in every month of an avalanche or snowball run each active loan is
\* first assigned min(minimumPayment, running balance), then the extra pool
\* is applied walking the active loans in priority order, the balance used
\* for ordering being each loan's running balance at the start of that month;
\* each loan absorbs extra only up to its running balance minus the payment
\* already assigned, and the remainder carries to the next loan.
C25_Original ==
    InPriorityRun =>
        /\ sim.monthlyEvents[sim.month].totalPayment = BudgetedPayment(sim.month)
        /\ ExtraByPriority(sim.month, StartBalances(sim.month))

---------------------------------------------------------------------------
(* Month events of simulateStrategy *)

\* a simulateStrategy call has simulated at least one month
InSimulatedMonth == InSimulation /\ sim.month > 0

\* the running balance of the loan at position i when month m began
BalanceBefore(m, i) ==
    IF m = 1 THEN sim.loans[i].balance
    ELSE sim.monthlyEvents[m - 1].loans[i].endBalance

\* the zero-activity sub-event
ZeroActivity(sub) ==
    /\ sub.startBalance = 0 /\ sub.payment = 0 /\ sub.interest = 0
    /\ sub.endBalance = 0 /\ sub.isPaidOff

\* C26: every month event of simulateStrategy holds exactly one sub-event per
\* portfolio loan in input order; for an active loan interest =
\* startBalance * apr / 100 / 12, endBalance = max(0, startBalance - payment +
\* interest) and isPaidOff is true exactly when endBalance <= 0.01; once a
\* loan's sub-event has isPaidOff = true, the next month (and so every later
\* one) records for it the zero-activity sub-event, so a paid-off loan never
\* becomes active or receives a payment again.
C26_MonthEvents ==
    InSimulatedMonth =>
        LET m == sim.month
            subs == sim.monthlyEvents[m].loans
        IN /\ Len(sim.monthlyEvents) = m
           /\ sim.monthlyEvents[m].month = m
           /\ Len(subs) = Len(sim.loans)
           /\ \A i \in DOMAIN subs :
                 /\ subs[i].loanId = sim.loans[i].id
                 /\ BalanceBefore(m, i) > EPS =>
                       /\ subs[i].startBalance = BalanceBefore(m, i)
                       /\ subs[i].interest =
                             MulDiv(subs[i].startBalance, sim.loans[i].apr,
                                    100 * 100 * 12)
                       /\ subs[i].endBalance =
                             Max(0, subs[i].startBalance - subs[i].payment
                                    + subs[i].interest)
                       /\ subs[i].isPaidOff <=> subs[i].endBalance <= EPS
                       /\ sim.activeLoanBalances[sim.loans[i].id] = subs[i].endBalance
                 /\ BalanceBefore(m, i) <= EPS =>
                       /\ ZeroActivity(subs[i])
                       /\ sim.activeLoanBalances[sim.loans[i].id] <= EPS
                 /\ (m > 1 /\ sim.monthlyEvents[m - 1].loans[i].isPaidOff)
                       => ZeroActivity(subs[i])

\* a loan paid off two months ago has its second zero-activity sub-event while
\* another loan of the portfolio is charged interest and paid
C26_Witness ==
    /\ InSimulatedMonth /\ sim.month > 2
    /\ \E i \in DOMAIN sim.loans : \E j \in DOMAIN sim.loans :
          /\ sim.loans[i].balance > EPS
          /\ sim.monthlyEvents[sim.month - 2].loans[i].isPaidOff
          /\ sim.monthlyEvents[sim.month - 2].loans[i].payment > 0
          /\ ZeroActivity(sim.monthlyEvents[sim.month].loans[i])
          /\ sim.monthlyEvents[sim.month].loans[j].interest > 0
          /\ sim.monthlyEvents[sim.month].loans[j].payment > 0

---------------------------------------------------------------------------
(* Denominators of the mortgage calculator *)

\* the portfolio of the request holds a mortgage whose homePrice is not positive
HasHomelessMortgage ==
    /\ op = "calculateMultiple"
    /\ \E i \in DOMAIN request.loans :
          request.loans[i].type = "mortgage" /\ request.loans[i].homePrice <= 0

\* C27: a mortgage entry with homePrice = 0 (or any non-positive denominator
\* of the LTV / equity computation) is rejected as invalid input before
\* simulation, in the error category of the other invalid-input failures (400
\* with an error message), and no result whose PMI decisions or equityPercent
\* came from a division by zero is returned.
C27_Original ==
    HasHomelessMortgage =>
        /\ pc = "mortgage" => entry.homePrice > 0
        /\ \A i \in DOMAIN response.loans :
              response.loans[i].equityPercent \notin {"nan", "+inf", "-inf"}
        /\ pc = "replied" => (http.status = 400 /\ http.error # "")

---------------------------------------------------------------------------
(* Budget of simulateStrategy *)

\* extraPayment plus the minimum payments of all loans of the portfolio
MonthlyBudget ==
    LET mins == [i \in DOMAIN sim.loans |-> sim.loans[i].minimumPayment]
    IN sim.extraPayment + SumRange(mins, 1, Len(sim.loans))

\* C28: for every strategy, every extraPayment >= 0 and every simulated month,
\* the month's totalPayment (the sum of its sub-events' payments) never
\* exceeds extraPayment plus the sum of minimumPayment over all loans of the
\* portfolio, and no loan's payment exceeds its start-of-month running
\* balance.
C28_BudgetConservation ==
    InSimulatedMonth =>
        LET event == sim.monthlyEvents[sim.month]
            paid == [i \in DOMAIN event.loans |-> event.loans[i].payment]
        IN /\ event.totalPayment = SumRange(paid, 1, Len(event.loans))
           /\ event.totalPayment <= MonthlyBudget
           /\ \A i \in DOMAIN event.loans :
                 /\ event.loans[i].payment >= 0
                 /\ event.loans[i].payment <= event.loans[i].startBalance

\* after a payoff, a month with a positive extraPayment has paid the whole
\* budget, the freed minimum included
C28_Witness ==
    /\ InSimulatedMonth
    /\ sim.extraPayment > 0
    /\ \E p \in DOMAIN sim.payoffOrder : sim.payoffOrder[p].payoffMonth < sim.month
    /\ sim.monthlyEvents[sim.month].totalPayment = MonthlyBudget

---------------------------------------------------------------------------
(* Accounting of simulateStrategy *)

\* the sum of a field of the sub-events of all months of a result
SumOverEvents(res, field) ==
    LET months == res.monthlyEvents
        ofMonth == [m \in DOMAIN months |->
                       LET subs == months[m].loans
                           part == [i \in DOMAIN subs |-> subs[i][field]]
                       IN SumRange(part, 1, Len(subs))]
    IN SumRange(ofMonth, 1, Len(months))

\* what is left of the loan a payoffOrder entry names, by the entry's totals
ResidualOf(item) ==
    sim.loans[PositionOf(item.loanId)].balance + item.totalInterestPaid - item.totalPaid

\* C29: after every simulated month and for every loan that started with a
\* balance above 0.01, running balance = initial balance + cumulative interest
\* - cumulative payments (the max(0, ...) clamp never discards money); each
\* payoffOrder entry satisfies totalPaid = initial balance + totalInterestPaid
\* - residual with 0 <= residual <= 0.01; and the returned totalInterest and
\* totalPaid are the sums of interest and payment over all sub-events of all
\* months.
C29_AccountingIdentity ==
    /\ InSimulation =>
          /\ \A i \in DOMAIN sim.loans :
                LET loan == sim.loans[i]
                IN loan.balance > EPS =>
                      sim.activeLoanBalances[loan.id] =
                          loan.balance + sim.loanInterestPaid[loan.id]
                                       - sim.loanTotalPaid[loan.id]
          /\ \A p \in DOMAIN sim.payoffOrder :
                /\ ResidualOf(sim.payoffOrder[p]) >= 0
                /\ ResidualOf(sim.payoffOrder[p]) <= EPS
    /\ Simulated =>
          /\ LastRun.totalInterest = SumOverEvents(LastRun, "interest")
          /\ LastRun.totalPaid = SumOverEvents(LastRun, "payment")

\* a run has returned after paying off two loans, one of them with a residual
\* within 0.01 left over, having charged interest
C29_Witness ==
    /\ Simulated
    /\ Len(LastRun.payoffOrder) >= 2
    /\ \E p \in DOMAIN sim.payoffOrder : ResidualOf(sim.payoffOrder[p]) > 0
    /\ LastRun.totalInterest > 0
    /\ LastRun.totalPaid > LastRun.totalInterest

---------------------------------------------------------------------------
(* Shape of the legacy schedule *)

\* C30: for every request validateInput accepts, every event of calculate has
\* endBalance < startBalance, each event's startBalance is the previous
\* event's endBalance (the first one's is the principal), event k carries
\* month = k, and totalMonths is the number of events: a validated loan's
\* balance never grows under the payment-then-interest ordering.
C30_DecreasingAndChained ==
    LegacyStepped =>
        LET n == Len(Events)
            e == Events[n]
        IN /\ e.endBalance < e.startBalance
           /\ e.month = n
           /\ e.startBalance =
                 IF n = 1 THEN request.principal ELSE Events[n - 1].endBalance
           /\ pc = "legacy" => month = n /\ balance = e.endBalance
           /\ pc = "replied" => result.totalMonths = n

\* calculate has returned a schedule of several months at a positive rate,
\* each month charged interest, ending at a zero balance
C30_Witness ==
    /\ LegacyStepped /\ pc = "replied"
    /\ request.apr > 0
    /\ Len(Events) >= 3
    /\ Events[1].interest > 0
    /\ Last(Events).endBalance = 0

====
